---- MODULE Spec2Model ----
(***************************************************************************)
(* Model of the BoxMeOut prediction-market contracts:                      *)
(*   market.rs  PredictionMarket  (commit / reveal / lifecycle / payout)   *)
(*   amm.rs     AMM               (constant-product pool engine)           *)
(*   oracle.rs  OracleManager     (attestation and consensus)              *)
(* Every public entry point is one action.  A call that panics or returns  *)
(* an error leaves the contract storage and the token ledger untouched and *)
(* only records its result in `ret`.                                       *)
(***************************************************************************)
EXTENDS Integers, Sequences, FiniteSets, TLC

\* ------------------------------------------------------------------ bounds
AmountUnit == 10
InitialBalance == 1030
MaxTime == 4
MaxInits == 2
MaxPayouts == 2
MaxAmmOps == 3
BigAmount == 500
MaxThreshold == 2
MaxMarkets == 4
\* The registration cap, 10 in oracle.rs:90, scaled to the oracles of the model.
MAX_ORACLES == 3

\* ------------------------------------------------------- program constants
STATE_OPEN == 0
STATE_CLOSED == 1
STATE_RESOLVED == 2
STATE_DISPUTED == 3
STATE_CANCELLED == 4
DISPUTE_WINDOW == 604800
DISPUTE_STAKE_AMOUNT == 1000
PROTOCOL_FEE_DIVISOR == 10

\* Option::None of a u32 / u64 storage entry that has not been written.
NONE == -1

\* ------------------------------------------------------------ input sets
Users == {"u1", "u2"}
MarketContract == "market"
AmmContract == "amm"
Accounts == Users \cup {MarketContract, AmmContract}
MarketIds == {1, 2}
Outcomes == {0, 1, 2}
Salts == {1, 2}
\* The stake of a prediction.
ValidAmounts == {AmountUnit}
Amounts == {-1, 0} \cup ValidAmounts
Deadlines == {<<1, 2>>, <<3, 4>>}
\* The deadlines of a market that is initialized once.
MarketDeadlines == {<<1, 2>>}
Times == (0 .. MaxTime) \cup {d[2] + DISPUTE_WINDOW : d \in Deadlines}

\* sha256(market_id || outcome.to_be_bytes() || salt): injective in its preimage.
Hash(m, o, s) == <<m, o, s>>
CommitHashes == {Hash(1, o, 1) : o \in {0, 1}}
\* commit_hash is any 32 bytes: also the hash of an outcome that is not 0 or 1.
OutcomeHashes == {Hash(1, o, 1) : o \in {1, 2}}

NoCommitment == [has |-> FALSE, commit_hash |-> <<0, 0, 0>>, amount |-> 0]
NoPrediction == [has |-> FALSE, outcome |-> 0, amount |-> 0, claimed |-> FALSE]

AmmMarkets == {1, 2}
AmmAmounts == {0, 1, 3, BigAmount}
MinOuts == {0, BigAmount}
Oracles == {"o1", "o2", "o3"}
OracleMarkets == {1}
Thresholds == 0 .. MaxThreshold
\* Every oracle address and market id that has storage keys in the model.
RegistryOracles == Oracles \cup {"o4", "o5"}
ArbitrationMarkets == 1 .. MaxMarkets

VARIABLES
    now,              \* env.ledger().timestamp()
    balance,          \* token ledger: account -> amount
    ret,              \* result of the most recent call
    ret_val,          \* value it returned: <<>> for none, <<v>>, or <<v, w>>
    market_state, market_id, creator, closing_time, resolution_time,
    yes_pool, no_pool, total_volume, pending_count,
    participants, commitments, predictions,
    winning_outcome, winner_shares, loser_shares,
    init_calls,       \* history: number of initialize calls
    payouts,          \* history: successful claim_winnings payouts per user
    paid_total,       \* history: sum of the net payouts of claim_winnings
    was_cancelled,    \* history: a cancel_market call has succeeded
    amm_initialized,  \* AMM::initialize has stored the token address and the fee
    pool_exists, pool_yes_reserve, pool_no_reserve, pool_k,
    pool_lp_supply, pool_lp_tokens, user_shares,
    amm_ops,          \* history: number of successful pool operations
    oracle_admin,     \* OracleManager: an admin is stored
    required_consensus, oracle_count, oracle_key,
    mkt_res_time, attest_yes, attest_no,
    vote,             \* vote[m][o]: the stored vote, NONE when the key is absent
    voters,           \* voters[m]: the market's voter list, in submission order
    consensus_result,
    challenge,        \* challenge[m][o]: the Challenge record of the pair
    market_challenged, \* the "market_challenged" key of m is stored (as true)
    oracle_accuracy, oracle_stake,
    challenger_reward, oracle_reward

marketVars == <<market_state, market_id, creator, closing_time, resolution_time,
                yes_pool, no_pool, total_volume, pending_count,
                participants, commitments, predictions,
                winning_outcome, winner_shares, loser_shares>>
histVars == <<init_calls, payouts, paid_total, was_cancelled>>
poolVars == <<pool_exists, pool_yes_reserve, pool_no_reserve, pool_k,
              pool_lp_supply, pool_lp_tokens, user_shares>>
ammVars == <<amm_initialized, poolVars, amm_ops>>
oracleVars == <<oracle_admin, required_consensus, oracle_count, oracle_key,
                mkt_res_time, attest_yes, attest_no, vote, voters, consensus_result>>
challengeVars == <<challenge, market_challenged, oracle_accuracy, oracle_stake,
                   challenger_reward, oracle_reward>>
vars == <<now, balance, ret, ret_val, marketVars, histVars, ammVars, oracleVars,
          challengeVars>>

\* ------------------------------------------------------------ token ledger
CanTransfer(bal, from, amount) == amount >= 0 /\ bal[from] >= amount

Transfer(bal, from, to, amount) ==
    IF from = to THEN bal
    ELSE [bal EXCEPT ![from] = @ - amount, ![to] = @ + amount]

\* ------------------------------------------------------------------- Init
NoChallenge == [has |-> FALSE, challenger |-> "nobody", stake |-> 0, resolved |-> FALSE]

Init ==
    /\ now = 0
    /\ balance = [a \in Accounts |-> IF a \in Users THEN InitialBalance ELSE 0]
    /\ ret = "Init"
    /\ ret_val = <<>>
    /\ market_state = NONE
    /\ market_id = NONE
    /\ creator = "nobody"
    /\ closing_time = NONE
    /\ resolution_time = NONE
    /\ yes_pool = 0
    /\ no_pool = 0
    /\ total_volume = 0
    /\ pending_count = 0
    /\ participants = <<>>
    /\ commitments = [u \in Users |-> NoCommitment]
    /\ predictions = [u \in Users |-> NoPrediction]
    /\ winning_outcome = NONE
    /\ winner_shares = NONE
    /\ loser_shares = NONE
    /\ init_calls = 0
    /\ payouts = [u \in Users |-> 0]
    /\ paid_total = 0
    /\ was_cancelled = FALSE
    /\ amm_initialized = FALSE
    /\ pool_exists = [m \in AmmMarkets |-> FALSE]
    /\ pool_yes_reserve = [m \in AmmMarkets |-> 0]
    /\ pool_no_reserve = [m \in AmmMarkets |-> 0]
    /\ pool_k = [m \in AmmMarkets |-> 0]
    /\ pool_lp_supply = [m \in AmmMarkets |-> 0]
    /\ pool_lp_tokens = [m \in AmmMarkets |-> [u \in Users |-> 0]]
    /\ user_shares = [m \in AmmMarkets |-> [u \in Users |-> [o \in {0, 1} |-> 0]]]
    /\ amm_ops = 0
    /\ oracle_admin = FALSE
    /\ required_consensus = NONE
    /\ oracle_count = NONE
    /\ oracle_key = [o \in RegistryOracles |-> NONE]
    /\ mkt_res_time = [m \in ArbitrationMarkets |-> NONE]
    /\ attest_yes = [m \in ArbitrationMarkets |-> NONE]
    /\ attest_no = [m \in ArbitrationMarkets |-> NONE]
    /\ vote = [m \in ArbitrationMarkets |-> [o \in RegistryOracles |-> NONE]]
    /\ voters = [m \in ArbitrationMarkets |-> <<>>]
    /\ consensus_result = [m \in ArbitrationMarkets |-> NONE]
    /\ challenge = [m \in ArbitrationMarkets |-> [o \in RegistryOracles |-> NoChallenge]]
    /\ market_challenged = [m \in ArbitrationMarkets |-> FALSE]
    /\ oracle_accuracy = [o \in RegistryOracles |-> NONE]
    /\ oracle_stake = [o \in RegistryOracles |-> NONE]
    /\ challenger_reward = [u \in Users |-> 0]
    /\ oracle_reward = [o \in RegistryOracles |-> 0]

\* A failed call: storage and ledger as before, only the result is observed.
Fail(code) ==
    /\ ret' = code
    /\ ret_val' = <<>>
    /\ UNCHANGED <<now, challengeVars, balance, marketVars, histVars, ammVars, oracleVars>>

\* ------------------------------------------------------------------ clock
\* The ledger timestamp is supplied by the environment and never goes back.
Tick(t) ==
    /\ t > now
    /\ now' = t
    /\ UNCHANGED <<balance, ret, ret_val, marketVars, histVars, ammVars, oracleVars,
                   challengeVars>>

\* ------------------------------------------------- PredictionMarket::initialize
\* No guard in the source: a second call overwrites the record again.
initialize(mid, c, ct, rt) ==
    /\ init_calls' = init_calls + 1
    /\ market_id' = mid
    /\ creator' = c
    /\ closing_time' = ct
    /\ resolution_time' = rt
    /\ market_state' = STATE_OPEN
    /\ yes_pool' = 0
    /\ no_pool' = 0
    /\ total_volume' = 0
    /\ pending_count' = 0
    /\ ret' = "Ok"
    /\ ret_val' = <<>>
    /\ UNCHANGED <<now, challengeVars, balance, participants, commitments, predictions,
                   winning_outcome, winner_shares, loser_shares, payouts, paid_total,
                   was_cancelled, ammVars, oracleVars>>

\* ------------------------------------------- PredictionMarket::commit_prediction
\* Mutant: a second commitment of the same user is accepted.
CommitResult_NoDuplicateCheck(user, amount) ==
    IF market_state = NONE THEN "NotInitialized"
    ELSE IF market_state # STATE_OPEN THEN "InvalidMarketState"
    ELSE IF now >= closing_time THEN "MarketClosed"
    ELSE IF amount <= 0 THEN "InvalidAmount"
    ELSE IF ~CanTransfer(balance, user, amount) THEN "Panic"
    ELSE "Ok"

CommitResult(user, amount) ==
    IF market_state = NONE THEN "NotInitialized"
    ELSE IF market_state # STATE_OPEN THEN "InvalidMarketState"
    ELSE IF now >= closing_time THEN "MarketClosed"
    ELSE IF amount <= 0 THEN "InvalidAmount"
    ELSE IF commitments[user].has THEN "DuplicateCommit"
    ELSE IF ~CanTransfer(balance, user, amount) THEN "Panic"
    ELSE "Ok"

commit_prediction(user, commit_hash, amount) ==
    LET r == CommitResult(user, amount) IN
    IF r # "Ok" THEN Fail(r)
    ELSE
        /\ balance' = Transfer(balance, user, MarketContract, amount)
        /\ commitments' = [commitments EXCEPT ![user] =
               [has |-> TRUE, commit_hash |-> commit_hash, amount |-> amount]]
        /\ participants' = Append(participants, user)
        /\ pending_count' = pending_count + 1
        /\ ret' = "Ok"
        /\ ret_val' = <<>>
        /\ UNCHANGED <<now, challengeVars, market_state, market_id, creator, closing_time,
                       resolution_time, yes_pool, no_pool, total_volume, predictions,
                       winning_outcome, winner_shares, loser_shares, histVars, ammVars, oracleVars>>

\* ------------------------------------------- PredictionMarket::reveal_prediction
\* Mutant: the reconstructed hash is not compared with the stored one.
RevealResult_NoHashCheck(user, mid, outcome, amount, salt) ==
    IF market_state = NONE THEN "NotInitialized"
    ELSE IF market_state # STATE_OPEN THEN "InvalidMarketState"
    ELSE IF now >= closing_time THEN "MarketClosed"
    ELSE IF predictions[user].has THEN "DuplicateReveal"
    ELSE IF ~commitments[user].has THEN "NoPrediction"
    ELSE IF amount # commitments[user].amount THEN "InvalidAmount"
    ELSE "Ok"

RevealResult(user, mid, outcome, amount, salt) ==
    IF market_state = NONE THEN "NotInitialized"
    ELSE IF market_state # STATE_OPEN THEN "InvalidMarketState"
    ELSE IF now >= closing_time THEN "MarketClosed"
    ELSE IF predictions[user].has THEN "DuplicateReveal"
    ELSE IF ~commitments[user].has THEN "NoPrediction"
    ELSE IF amount # commitments[user].amount THEN "InvalidAmount"
    ELSE IF Hash(mid, outcome, salt) # commitments[user].commit_hash THEN "InvalidReveal"
    ELSE "Ok"

reveal_prediction(user, mid, outcome, amount, salt) ==
    LET r == RevealResult(user, mid, outcome, amount, salt) IN
    IF r # "Ok" THEN Fail(r)
    ELSE
        /\ predictions' = [predictions EXCEPT ![user] =
               [has |-> TRUE, outcome |-> outcome, amount |-> amount, claimed |-> FALSE]]
        /\ yes_pool' = IF outcome = 1 THEN yes_pool + amount ELSE yes_pool
        /\ no_pool' = IF outcome = 1 THEN no_pool ELSE no_pool + amount
        /\ total_volume' = total_volume + amount
        /\ pending_count' = IF pending_count > 0 THEN pending_count - 1 ELSE 0
        /\ commitments' = [commitments EXCEPT ![user] = NoCommitment]
        /\ ret' = "Ok"
        /\ ret_val' = <<>>
        /\ UNCHANGED <<now, challengeVars, balance, market_state, market_id, creator, closing_time,
                       resolution_time, participants,
                       winning_outcome, winner_shares, loser_shares, histVars, ammVars, oracleVars>>

\* ------------------------------------------------ PredictionMarket::close_market
\* Mutant: the market can be closed before closing_time.
CloseResult_NoTimeCheck ==
    IF closing_time = NONE THEN "Panic"
    ELSE IF market_state # STATE_OPEN THEN "Panic"
    ELSE "Ok"

CloseResult ==
    IF closing_time = NONE THEN "Panic"
    ELSE IF now < closing_time THEN "Panic"
    ELSE IF market_state # STATE_OPEN THEN "Panic"
    ELSE "Ok"

close_market ==
    IF CloseResult # "Ok" THEN Fail(CloseResult)
    ELSE
        /\ market_state' = STATE_CLOSED
        /\ ret' = "Ok"
        /\ ret_val' = <<>>
        /\ UNCHANGED <<now, challengeVars, balance, market_id, creator, closing_time, resolution_time,
                       yes_pool, no_pool, total_volume, pending_count,
                       participants, commitments, predictions,
                       winning_outcome, winner_shares, loser_shares, histVars, ammVars, oracleVars>>

\* ---------------------------------------------- PredictionMarket::resolve_market
ResolveResult ==
    IF resolution_time = NONE THEN "Panic"
    ELSE IF now < resolution_time THEN "Panic"
    ELSE IF market_state = STATE_OPEN THEN "Panic"
    ELSE IF market_state = STATE_RESOLVED THEN "Panic"
    ELSE "Ok"

\* The oracle call is commented out in the source: the outcome is the literal 1.
ResolveOutcome == 1

\* The storage writes of a successful resolve_market.
ResolveWrites ==
    LET final_outcome == ResolveOutcome IN
    /\ winning_outcome' = final_outcome
    /\ winner_shares' = IF final_outcome = 1 THEN yes_pool ELSE no_pool
    /\ loser_shares' = IF final_outcome = 1 THEN no_pool ELSE yes_pool
    /\ market_state' = STATE_RESOLVED
    /\ UNCHANGED <<market_id, creator, closing_time, resolution_time,
                   yes_pool, no_pool, total_volume, pending_count,
                   participants, commitments, predictions>>

resolve_market ==
    IF ResolveResult # "Ok" THEN Fail(ResolveResult)
    ELSE
        /\ ResolveWrites
        /\ ret' = "Ok"
        /\ ret_val' = <<>>
        /\ UNCHANGED <<now, challengeVars, balance, histVars, ammVars, oracleVars>>

\* ---------------------------------------------- PredictionMarket::dispute_market
\* Mutant: the dispute window never closes.
DisputeResult_NoWindow(user) ==
    IF market_state = NONE THEN "Panic"
    ELSE IF market_state # STATE_RESOLVED THEN "Panic"
    ELSE IF ~CanTransfer(balance, user, DISPUTE_STAKE_AMOUNT) THEN "Panic"
    ELSE "Ok"

DisputeResult(user) ==
    IF market_state = NONE THEN "Panic"
    ELSE IF market_state # STATE_RESOLVED THEN "Panic"
    ELSE IF now >= resolution_time + DISPUTE_WINDOW THEN "Panic"
    ELSE IF ~CanTransfer(balance, user, DISPUTE_STAKE_AMOUNT) THEN "Panic"
    ELSE "Ok"

dispute_market(user) ==
    LET r == DisputeResult(user) IN
    IF r # "Ok" THEN Fail(r)
    ELSE
        /\ balance' = Transfer(balance, user, MarketContract, DISPUTE_STAKE_AMOUNT)
        /\ market_state' = STATE_DISPUTED
        /\ ret' = "Ok"
        /\ ret_val' = <<>>
        /\ UNCHANGED <<now, challengeVars, market_id, creator, closing_time, resolution_time,
                       yes_pool, no_pool, total_volume, pending_count,
                       participants, commitments, predictions,
                       winning_outcome, winner_shares, loser_shares, histVars, ammVars, oracleVars>>

\* ---------------------------------------------- PredictionMarket::claim_winnings
\* Mutant: every winner is paid the whole pool.
gross_payout_WholePool(amount, winner_shares_, loser_shares_) ==
    winner_shares_ + loser_shares_

gross_payout(amount, winner_shares_, loser_shares_) ==
    (amount * (winner_shares_ + loser_shares_)) \div winner_shares_

\* Mutant: a 1% fee.
fee_OnePercent(gross) == gross \div 100

fee(gross) == gross \div PROTOCOL_FEE_DIVISOR

GrossPayout(user) ==
    gross_payout(predictions[user].amount, winner_shares, loser_shares)

NetPayout(user) == GrossPayout(user) - fee(GrossPayout(user))

\* Mutant: the prediction is not compared with the winning outcome.
ClaimResult_NoOutcomeCheck(user) ==
    IF market_state = NONE THEN "Panic"
    ELSE IF market_state # STATE_RESOLVED THEN "Panic"
    ELSE IF ~predictions[user].has THEN "Panic"
    ELSE IF predictions[user].claimed THEN "Panic"
    ELSE IF winning_outcome = NONE THEN "Panic"
    ELSE IF winner_shares = NONE THEN "Panic"
    ELSE IF winner_shares = 0 THEN "Panic"
    ELSE IF NetPayout(user) = 0 THEN "Panic"
    ELSE IF ~CanTransfer(balance, MarketContract, NetPayout(user)) THEN "Panic"
    ELSE "Ok"

ClaimResult(user) ==
    IF market_state = NONE THEN "Panic"
    ELSE IF market_state # STATE_RESOLVED THEN "Panic"
    ELSE IF ~predictions[user].has THEN "Panic"
    ELSE IF predictions[user].claimed THEN "Panic"
    ELSE IF winning_outcome = NONE THEN "Panic"
    ELSE IF predictions[user].outcome # winning_outcome THEN "Panic"
    ELSE IF winner_shares = NONE THEN "Panic"
    ELSE IF winner_shares = 0 THEN "Panic"
    ELSE IF NetPayout(user) = 0 THEN "Panic"
    ELSE IF ~CanTransfer(balance, MarketContract, NetPayout(user)) THEN "Panic"
    ELSE "Ok"

claim_winnings(user) ==
    LET r == ClaimResult(user) IN
    IF r # "Ok" THEN Fail(r)
    ELSE
        /\ payouts[user] < MaxPayouts
        /\ balance' = Transfer(balance, MarketContract, user, NetPayout(user))
        /\ predictions' = [predictions EXCEPT ![user].claimed = TRUE]
        /\ payouts' = [payouts EXCEPT ![user] = @ + 1]
        /\ paid_total' = paid_total + NetPayout(user)
        /\ ret' = "Ok"
        /\ ret_val' = <<NetPayout(user)>>
        /\ UNCHANGED <<now, challengeVars, market_state, market_id, creator, closing_time,
                       resolution_time, yes_pool, no_pool, total_volume, pending_count,
                       participants, commitments,
                       winning_outcome, winner_shares, loser_shares, init_calls,
                       was_cancelled, ammVars, oracleVars>>

\* ----------------------------------------------- PredictionMarket::cancel_market
\* The refund loop over the participant list.  The loop state is
\* [ok, bal, com, pred]; a failed transfer aborts the whole call.
RECURSIVE RefundLoop(_, _)
RefundLoop(i, st) ==
    IF i > Len(participants) \/ ~st.ok THEN st
    ELSE
        LET user == participants[i] IN
        IF st.com[user].has THEN
            LET amt == st.com[user].amount IN
            IF amt > 0 /\ ~CanTransfer(st.bal, MarketContract, amt)
            THEN [st EXCEPT !.ok = FALSE]
            ELSE RefundLoop(i + 1,
                    [st EXCEPT !.bal = IF amt > 0
                                       THEN Transfer(st.bal, MarketContract, user, amt)
                                       ELSE st.bal,
                               !.com[user] = NoCommitment])
        ELSE IF st.pred[user].has THEN
            LET amt == st.pred[user].amount IN
            IF amt > 0 /\ ~CanTransfer(st.bal, MarketContract, amt)
            THEN [st EXCEPT !.ok = FALSE]
            ELSE RefundLoop(i + 1,
                    [st EXCEPT !.bal = IF amt > 0
                                       THEN Transfer(st.bal, MarketContract, user, amt)
                                       ELSE st.bal,
                               !.pred[user] = NoPrediction])
        ELSE RefundLoop(i + 1, st)

\* Mutant: the loop starts at the second participant.
Refunded_SkipFirst ==
    RefundLoop(2, [ok |-> TRUE, bal |-> balance, com |-> commitments, pred |-> predictions])

Refunded ==
    RefundLoop(1, [ok |-> TRUE, bal |-> balance, com |-> commitments, pred |-> predictions])

CancelResult(c) ==
    IF market_state = NONE THEN "Panic"
    ELSE IF c # creator THEN "Panic"
    ELSE IF market_state = STATE_RESOLVED THEN "Panic"
    ELSE IF market_state = STATE_CANCELLED THEN "Panic"
    ELSE IF ~Refunded.ok THEN "Panic"
    ELSE "Ok"

cancel_market(c) ==
    LET r == CancelResult(c) IN
    IF r # "Ok" THEN Fail(r)
    ELSE
        /\ balance' = Refunded.bal
        /\ commitments' = Refunded.com
        /\ predictions' = Refunded.pred
        /\ participants' = <<>>
        /\ market_state' = STATE_CANCELLED
        /\ was_cancelled' = TRUE
        /\ ret' = "Ok"
        /\ ret_val' = <<>>
        /\ UNCHANGED <<now, challengeVars, market_id, creator, closing_time, resolution_time,
                       yes_pool, no_pool, total_volume, pending_count,
                       winning_outcome, winner_shares, loser_shares, init_calls, payouts,
                       paid_total, ammVars, oracleVars>>

\* ------------------------------------------------------ market specifications
MarketId == 1
Creator == "u1"

\* The arguments of reveal_prediction: those a commitment was made for, and
\* those that differ from them in the market id, the amount or the salt.
RevealInputs ==
    {i \in MarketIds \X Outcomes \X Amounts \X Salts :
        Cardinality({k \in {1, 3, 4} : i[k] # <<MarketId, 0, AmountUnit, 1>>[k]}) <= 1}

MarketOpsOn(U, H) ==
    \/ \E t \in Times : Tick(t)
    \/ \E u \in U, h \in H, a \in Amounts : commit_prediction(u, h, a)
    \/ \E u \in U, i \in RevealInputs : reveal_prediction(u, i[1], i[2], i[3], i[4])
    \/ close_market
    \/ resolve_market
    \/ \E u \in U : dispute_market(u)
    \/ \E u \in U : claim_winnings(u)
    \/ \E c \in Users : cancel_market(c)

MarketOps(U) == MarketOpsOn(U, CommitHashes)

\* Two users, the market initialized once.
NextMarket ==
    \/ /\ init_calls < 1
       /\ \E d \in MarketDeadlines : initialize(MarketId, Creator, d[1], d[2])
    \/ MarketOps(Users)

SpecMarket == Init /\ [][NextMarket]_vars

\* One user, the market initialized up to MaxInits times.
NextReinit ==
    \/ /\ init_calls < MaxInits
       /\ \E d \in Deadlines : initialize(MarketId, Creator, d[1], d[2])
    \/ MarketOps({"u1"})

SpecReinit == Init /\ [][NextReinit]_vars

\* Two users, the market initialized once, commitments to any outcome value.
NextOutcomes ==
    \/ /\ init_calls < 1
       /\ \E d \in MarketDeadlines : initialize(MarketId, Creator, d[1], d[2])
    \/ MarketOpsOn(Users, OutcomeHashes)

SpecOutcomes == Init /\ [][NextOutcomes]_vars

\* ======================================================================= AMM
TRADING_FEE_BPS == 20
BPS == 10000

\* ------------------------------------------------------------ AMM::initialize
amm_initialize ==
    /\ amm_initialized' = TRUE
    /\ ret' = "Ok"
    /\ ret_val' = <<>>
    /\ UNCHANGED <<now, challengeVars, balance, marketVars, histVars, oracleVars, poolVars, amm_ops>>

\* ------------------------------------------------------- panics in the AMM
\* The pool storage and the ledger, as one value.
AmmState ==
    [yes |-> pool_yes_reserve, no |-> pool_no_reserve, k |-> pool_k,
     exists |-> pool_exists, lp_supply |-> pool_lp_supply,
     lp_tokens |-> pool_lp_tokens, shares |-> user_shares, bal |-> balance]

\* Mutant: the writes made before the panic stay in storage.
Rollback_KeepWrites(pre, written) == written

\* A panic ends the invocation and the writes it made so far are discarded.
Rollback(pre, written) == pre

\* The call panics after having brought storage to `written`.
Abort(code, written) ==
    LET s == Rollback(AmmState, written) IN
    /\ pool_yes_reserve' = s.yes
    /\ pool_no_reserve' = s.no
    /\ pool_k' = s.k
    /\ pool_exists' = s.exists
    /\ pool_lp_supply' = s.lp_supply
    /\ pool_lp_tokens' = s.lp_tokens
    /\ user_shares' = s.shares
    /\ balance' = s.bal
    /\ ret' = code
    /\ ret_val' = <<>>
    /\ UNCHANGED <<now, challengeVars, marketVars, histVars, oracleVars, amm_initialized, amm_ops>>

\* ----------------------------------------------------------- AMM::create_pool
\* Mutant: each reserve gets the whole deposit.
InitialReserve_Whole(initial_liquidity) == initial_liquidity

\* Mutant: each reserve gets half of the deposit, rounded up.
InitialReserve_RoundUp(initial_liquidity) == (initial_liquidity + 1) \div 2

\* The 50/50 split: initial_liquidity / 2 for each reserve.
InitialReserve(initial_liquidity) == initial_liquidity \div 2

\* Storage when create_pool reaches the token lookup and the transfer.
CreateWritten(creator_, m, initial_liquidity) ==
    IF pool_exists[m] \/ initial_liquidity = 0 THEN AmmState
    ELSE [AmmState EXCEPT !.yes[m] = InitialReserve(initial_liquidity),
                          !.no[m] = InitialReserve(initial_liquidity),
                          !.k[m] = InitialReserve(initial_liquidity)
                                       * InitialReserve(initial_liquidity),
                          !.exists[m] = TRUE,
                          !.lp_supply[m] = initial_liquidity,
                          !.lp_tokens[m][creator_] = initial_liquidity]

CreatePoolResult(creator_, m, initial_liquidity) ==
    IF pool_exists[m] THEN "Panic"
    ELSE IF initial_liquidity = 0 THEN "Panic"
    ELSE IF ~amm_initialized THEN "Panic"
    ELSE IF ~CanTransfer(balance, creator_, initial_liquidity) THEN "Panic"
    ELSE "Ok"

create_pool(creator_, m, initial_liquidity) ==
    LET r == CreatePoolResult(creator_, m, initial_liquidity)
        yes_reserve == InitialReserve(initial_liquidity)
        no_reserve == InitialReserve(initial_liquidity)
    IN
    IF r # "Ok" THEN Abort(r, CreateWritten(creator_, m, initial_liquidity))
    ELSE
        /\ pool_yes_reserve' = [pool_yes_reserve EXCEPT ![m] = yes_reserve]
        /\ pool_no_reserve' = [pool_no_reserve EXCEPT ![m] = no_reserve]
        /\ pool_k' = [pool_k EXCEPT ![m] = yes_reserve * no_reserve]
        /\ pool_exists' = [pool_exists EXCEPT ![m] = TRUE]
        /\ pool_lp_supply' = [pool_lp_supply EXCEPT ![m] = initial_liquidity]
        /\ pool_lp_tokens' = [pool_lp_tokens EXCEPT ![m][creator_] = initial_liquidity]
        /\ balance' = Transfer(balance, creator_, AmmContract, initial_liquidity)
        /\ amm_ops' = amm_ops + 1
        /\ ret' = "Ok"
        /\ ret_val' = <<>>
        /\ UNCHANGED <<now, challengeVars, marketVars, histVars, oracleVars, amm_initialized, user_shares>>

\* ------------------------------------------------------------ AMM::buy_shares
\* Mutant: the fee is one percent.
FeeOf_OnePercent(x) == (x * 100) \div BPS

FeeOf(x) == (x * TRADING_FEE_BPS) \div BPS

\* Reserve of the outcome bought or sold, and of the opposite outcome.
ReserveOf(m, outcome) ==
    IF outcome = 1 THEN pool_yes_reserve[m] ELSE pool_no_reserve[m]
OtherReserveOf(m, outcome) ==
    IF outcome = 1 THEN pool_no_reserve[m] ELSE pool_yes_reserve[m]

BuySharesOut(m, outcome, amount) ==
    LET amount_after_fee == amount - FeeOf(amount)
        reserve_in == OtherReserveOf(m, outcome)
        reserve_out == ReserveOf(m, outcome)
    IN (amount_after_fee * reserve_out) \div (reserve_in + amount_after_fee)

\* The checks made before buy_shares writes the reserves.
BuyChecks(m, outcome, amount, min_shares) ==
    IF outcome > 1 THEN "Panic"
    ELSE IF amount = 0 THEN "Panic"
    ELSE IF ~pool_exists[m] THEN "Panic"
    ELSE IF pool_yes_reserve[m] = 0 \/ pool_no_reserve[m] = 0 THEN "Panic"
    ELSE
        LET amount_after_fee == amount - FeeOf(amount)
            shares_out == BuySharesOut(m, outcome, amount)
            new_reserve_in == OtherReserveOf(m, outcome) + amount_after_fee
            new_reserve_out == ReserveOf(m, outcome) - shares_out
        IN
        IF shares_out < min_shares THEN "Panic"
        ELSE IF new_reserve_in * new_reserve_out
                    < pool_yes_reserve[m] * pool_no_reserve[m] THEN "Panic"
        ELSE "Ok"

BuyResult(buyer, m, outcome, amount, min_shares) ==
    IF BuyChecks(m, outcome, amount, min_shares) # "Ok" THEN "Panic"
    ELSE IF ~amm_initialized THEN "Panic"
    ELSE IF ~CanTransfer(balance, buyer, amount) THEN "Panic"
    ELSE "Ok"

\* Storage when buy_shares reaches the token lookup and the transfer.
BuyWritten(m, outcome, amount, min_shares) ==
    IF BuyChecks(m, outcome, amount, min_shares) # "Ok" THEN AmmState
    ELSE LET amount_after_fee == amount - FeeOf(amount)
             shares_out == BuySharesOut(m, outcome, amount)
         IN [AmmState EXCEPT
                !.yes[m] = IF outcome = 1 THEN @ - shares_out ELSE @ + amount_after_fee,
                !.no[m] = IF outcome = 1 THEN @ + amount_after_fee ELSE @ - shares_out]

buy_shares(buyer, m, outcome, amount, min_shares) ==
    LET r == BuyResult(buyer, m, outcome, amount, min_shares)
        amount_after_fee == amount - FeeOf(amount)
        shares_out == BuySharesOut(m, outcome, amount)
    IN
    IF r # "Ok" THEN Abort(r, BuyWritten(m, outcome, amount, min_shares))
    ELSE
        /\ pool_yes_reserve' = [pool_yes_reserve EXCEPT ![m] =
               IF outcome = 1 THEN @ - shares_out ELSE @ + amount_after_fee]
        /\ pool_no_reserve' = [pool_no_reserve EXCEPT ![m] =
               IF outcome = 1 THEN @ + amount_after_fee ELSE @ - shares_out]
        /\ balance' = Transfer(balance, buyer, AmmContract, amount)
        /\ user_shares' = [user_shares EXCEPT ![m][buyer][outcome] = @ + shares_out]
        /\ amm_ops' = amm_ops + 1
        /\ ret' = "Ok"
        /\ ret_val' = <<shares_out>>
        /\ UNCHANGED <<now, challengeVars, marketVars, histVars, oracleVars, amm_initialized, pool_exists,
                       pool_k, pool_lp_supply, pool_lp_tokens>>

\* ----------------------------------------------------------- AMM::sell_shares
\* Mutant: the payout is priced against the reserve before the sold shares
\* are added to it.
SellPayout_StaleReserve(m, outcome, shares) ==
    (shares * OtherReserveOf(m, outcome)) \div ReserveOf(m, outcome)

SellPayout(m, outcome, shares) ==
    (shares * OtherReserveOf(m, outcome)) \div (ReserveOf(m, outcome) + shares)

\* Mutant: the seller's share balance is not checked.
SellChecks_NoBalanceCheck(seller, m, outcome, shares, min_payout) ==
    IF outcome > 1 THEN "Panic"
    ELSE IF shares = 0 THEN "Panic"
    ELSE IF ~pool_exists[m] THEN "Panic"
    ELSE IF pool_yes_reserve[m] = 0 \/ pool_no_reserve[m] = 0 THEN "Panic"
    ELSE
        LET payout == SellPayout(m, outcome, shares)
            payout_after_fee == payout - FeeOf(payout)
        IN
        IF payout_after_fee < min_payout THEN "Panic"
        ELSE IF OtherReserveOf(m, outcome) - payout < 0 THEN "Panic"
        ELSE "Ok"

\* The checks made before sell_shares writes the reserves.
SellChecks(seller, m, outcome, shares, min_payout) ==
    IF outcome > 1 THEN "Panic"
    ELSE IF shares = 0 THEN "Panic"
    ELSE IF ~pool_exists[m] THEN "Panic"
    ELSE IF user_shares[m][seller][outcome] < shares THEN "Panic"
    ELSE IF pool_yes_reserve[m] = 0 \/ pool_no_reserve[m] = 0 THEN "Panic"
    ELSE
        LET payout == SellPayout(m, outcome, shares)
            payout_after_fee == payout - FeeOf(payout)
        IN
        IF payout_after_fee < min_payout THEN "Panic"
        ELSE IF OtherReserveOf(m, outcome) - payout < 0 THEN "Panic"
        ELSE "Ok"

\* The check sell_shares makes on the reserves it has just written.
SellReservesPositive(m, outcome, shares) ==
    /\ ReserveOf(m, outcome) + shares # 0
    /\ OtherReserveOf(m, outcome) - SellPayout(m, outcome, shares) # 0

SellResult(seller, m, outcome, shares, min_payout) ==
    IF SellChecks(seller, m, outcome, shares, min_payout) # "Ok" THEN "Panic"
    ELSE IF ~SellReservesPositive(m, outcome, shares) THEN "Panic"
    ELSE IF ~amm_initialized THEN "Panic"
    ELSE IF ~CanTransfer(balance, AmmContract,
                         SellPayout(m, outcome, shares)
                             - FeeOf(SellPayout(m, outcome, shares))) THEN "Panic"
    ELSE "Ok"

\* Storage at the point where a failing sell_shares panics: the reserves are
\* written before the positivity check, the shares are burnt before the
\* token lookup and the transfer.
SellWritten(seller, m, outcome, shares, min_payout) ==
    IF SellChecks(seller, m, outcome, shares, min_payout) # "Ok" THEN AmmState
    ELSE LET payout == SellPayout(m, outcome, shares)
             reserves == [AmmState EXCEPT
                 !.yes[m] = IF outcome = 1 THEN @ + shares ELSE @ - payout,
                 !.no[m] = IF outcome = 1 THEN @ - payout ELSE @ + shares]
         IN IF ~SellReservesPositive(m, outcome, shares) THEN reserves
            ELSE [reserves EXCEPT !.shares[m][seller][outcome] = @ - shares]

sell_shares(seller, m, outcome, shares, min_payout) ==
    LET r == SellResult(seller, m, outcome, shares, min_payout)
        payout == SellPayout(m, outcome, shares)
        payout_after_fee == payout - FeeOf(payout)
    IN
    IF r # "Ok" THEN Abort(r, SellWritten(seller, m, outcome, shares, min_payout))
    ELSE
        /\ pool_yes_reserve' = [pool_yes_reserve EXCEPT ![m] =
               IF outcome = 1 THEN @ + shares ELSE @ - payout]
        /\ pool_no_reserve' = [pool_no_reserve EXCEPT ![m] =
               IF outcome = 1 THEN @ - payout ELSE @ + shares]
        /\ user_shares' = [user_shares EXCEPT ![m][seller][outcome] = @ - shares]
        /\ balance' = Transfer(balance, AmmContract, seller, payout_after_fee)
        /\ amm_ops' = amm_ops + 1
        /\ ret' = "Ok"
        /\ ret_val' = <<payout_after_fee>>
        /\ UNCHANGED <<now, challengeVars, marketVars, histVars, oracleVars, amm_initialized, pool_exists,
                       pool_k, pool_lp_supply, pool_lp_tokens>>

\* -------------------------------------------------------------- AMM::get_odds
\* Mutant: the rounding remainder is not added back.
get_odds_NoAdjustment(m) ==
    IF ~pool_exists[m] THEN <<5000, 5000>>
    ELSE IF pool_yes_reserve[m] = 0 /\ pool_no_reserve[m] = 0 THEN <<5000, 5000>>
    ELSE IF pool_yes_reserve[m] = 0 THEN <<0, 10000>>
    ELSE IF pool_no_reserve[m] = 0 THEN <<10000, 0>>
    ELSE
        LET total_liquidity == pool_yes_reserve[m] + pool_no_reserve[m] IN
        <<(pool_no_reserve[m] * 10000) \div total_liquidity,
          (pool_yes_reserve[m] * 10000) \div total_liquidity>>

get_odds(m) ==
    IF ~pool_exists[m] THEN <<5000, 5000>>
    ELSE IF pool_yes_reserve[m] = 0 /\ pool_no_reserve[m] = 0 THEN <<5000, 5000>>
    ELSE IF pool_yes_reserve[m] = 0 THEN <<0, 10000>>
    ELSE IF pool_no_reserve[m] = 0 THEN <<10000, 0>>
    ELSE
        LET total_liquidity == pool_yes_reserve[m] + pool_no_reserve[m]
            yes_odds == (pool_no_reserve[m] * 10000) \div total_liquidity
            no_odds == (pool_yes_reserve[m] * 10000) \div total_liquidity
            total_odds == yes_odds + no_odds
            adjustment == 10000 - total_odds
        IN
        IF total_odds # 10000
        THEN IF yes_odds >= no_odds
             THEN <<yes_odds + adjustment, no_odds>>
             ELSE <<yes_odds, no_odds + adjustment>>
        ELSE <<yes_odds, no_odds>>

\* --------------------------------------------------------- AMM::add_liquidity
\* Mutant: LP tokens are always minted 1:1.
calculate_lp_tokens_to_mint_OneToOne(current_lp_supply, current_total_liquidity, usdc_amount) ==
    usdc_amount

calculate_lp_tokens_to_mint(current_lp_supply, current_total_liquidity, usdc_amount) ==
    IF current_lp_supply = 0 THEN usdc_amount
    ELSE (usdc_amount * current_lp_supply) \div current_total_liquidity

\* The part of the deposit that goes to the yes reserve.
yes_add_of(usdc_amount, yes_reserve, current_total_liquidity) ==
    IF current_total_liquidity = 0 THEN usdc_amount \div 2
    ELSE (usdc_amount * yes_reserve) \div current_total_liquidity

AddYes(m, usdc_amount) ==
    yes_add_of(usdc_amount, pool_yes_reserve[m], pool_yes_reserve[m] + pool_no_reserve[m])

\* The checks made before add_liquidity writes the pool.
AddChecks(m, usdc_amount) ==
    IF usdc_amount = 0 THEN "Panic"
    ELSE IF ~pool_exists[m] THEN "Panic"
    ELSE
        LET total == pool_yes_reserve[m] + pool_no_reserve[m] IN
        IF pool_lp_supply[m] # 0 /\ total = 0 THEN "Panic"
        ELSE IF calculate_lp_tokens_to_mint(pool_lp_supply[m], total, usdc_amount) = 0
             THEN "Panic"
        ELSE IF AddYes(m, usdc_amount) = 0 \/ usdc_amount - AddYes(m, usdc_amount) = 0
             THEN "Panic"
        ELSE "Ok"

AddResult(provider, m, usdc_amount) ==
    IF AddChecks(m, usdc_amount) # "Ok" THEN "Panic"
    ELSE IF ~amm_initialized THEN "Panic"
    ELSE IF ~CanTransfer(balance, provider, usdc_amount) THEN "Panic"
    ELSE "Ok"

\* Storage when add_liquidity reaches the token lookup and the transfer.
AddWritten(provider, m, usdc_amount) ==
    IF AddChecks(m, usdc_amount) # "Ok" THEN AmmState
    ELSE LET total == pool_yes_reserve[m] + pool_no_reserve[m]
             minted == calculate_lp_tokens_to_mint(pool_lp_supply[m], total, usdc_amount)
             yes_add == AddYes(m, usdc_amount)
             no_add == usdc_amount - yes_add
         IN [AmmState EXCEPT
                !.yes[m] = @ + yes_add,
                !.no[m] = @ + no_add,
                !.k[m] = (pool_yes_reserve[m] + yes_add) * (pool_no_reserve[m] + no_add),
                !.lp_supply[m] = @ + minted,
                !.lp_tokens[m][provider] = @ + minted]

add_liquidity(provider, m, usdc_amount) ==
    LET r == AddResult(provider, m, usdc_amount)
        total == pool_yes_reserve[m] + pool_no_reserve[m]
        minted == calculate_lp_tokens_to_mint(pool_lp_supply[m], total, usdc_amount)
        yes_add == AddYes(m, usdc_amount)
        no_add == usdc_amount - yes_add
    IN
    IF r # "Ok" THEN Abort(r, AddWritten(provider, m, usdc_amount))
    ELSE
        /\ pool_yes_reserve' = [pool_yes_reserve EXCEPT ![m] = @ + yes_add]
        /\ pool_no_reserve' = [pool_no_reserve EXCEPT ![m] = @ + no_add]
        /\ pool_k' = [pool_k EXCEPT ![m] =
               (pool_yes_reserve[m] + yes_add) * (pool_no_reserve[m] + no_add)]
        /\ pool_lp_supply' = [pool_lp_supply EXCEPT ![m] = @ + minted]
        /\ pool_lp_tokens' = [pool_lp_tokens EXCEPT ![m][provider] = @ + minted]
        /\ balance' = Transfer(balance, provider, AmmContract, usdc_amount)
        /\ amm_ops' = amm_ops + 1
        /\ ret' = "Ok"
        /\ ret_val' = <<minted>>
        /\ UNCHANGED <<now, challengeVars, marketVars, histVars, oracleVars, amm_initialized, pool_exists,
                       user_shares>>

\* ------------------------------------------------------ AMM::remove_liquidity
\* Mutant: the burnt LP tokens are not taken off the supply.
BurnSupply_Kept(supply, lp_tokens) == supply

BurnSupply(supply, lp_tokens) == supply - lp_tokens

\* Mutant: a withdrawal may take a reserve down to zero.
RemoveChecks_NoDrainCheck(provider, m, lp_tokens) ==
    IF lp_tokens = 0 THEN "Panic"
    ELSE IF ~pool_exists[m] THEN "Panic"
    ELSE IF pool_lp_tokens[m][provider] < lp_tokens THEN "Panic"
    ELSE IF (lp_tokens * pool_yes_reserve[m]) \div pool_lp_supply[m] = 0
              \/ (lp_tokens * pool_no_reserve[m]) \div pool_lp_supply[m] = 0 THEN "Panic"
    ELSE "Ok"

\* The checks made before remove_liquidity writes the pool.
RemoveChecks(provider, m, lp_tokens) ==
    IF lp_tokens = 0 THEN "Panic"
    ELSE IF ~pool_exists[m] THEN "Panic"
    ELSE IF pool_lp_tokens[m][provider] < lp_tokens THEN "Panic"
    ELSE
        LET yes_amount == (lp_tokens * pool_yes_reserve[m]) \div pool_lp_supply[m]
            no_amount == (lp_tokens * pool_no_reserve[m]) \div pool_lp_supply[m]
        IN
        IF yes_amount = 0 \/ no_amount = 0 THEN "Panic"
        ELSE IF pool_yes_reserve[m] - yes_amount = 0
                  \/ pool_no_reserve[m] - no_amount = 0 THEN "Panic"
        ELSE "Ok"

RemoveResult(provider, m, lp_tokens) ==
    IF RemoveChecks(provider, m, lp_tokens) # "Ok" THEN "Panic"
    ELSE IF ~amm_initialized THEN "Panic"
    ELSE IF ~CanTransfer(balance, AmmContract,
                         (lp_tokens * pool_yes_reserve[m]) \div pool_lp_supply[m]
                         + (lp_tokens * pool_no_reserve[m]) \div pool_lp_supply[m])
         THEN "Panic"
    ELSE "Ok"

\* Storage when remove_liquidity reaches the token lookup and the transfer.
RemoveWritten(provider, m, lp_tokens) ==
    IF RemoveChecks(provider, m, lp_tokens) # "Ok" THEN AmmState
    ELSE LET yes_amount == (lp_tokens * pool_yes_reserve[m]) \div pool_lp_supply[m]
             no_amount == (lp_tokens * pool_no_reserve[m]) \div pool_lp_supply[m]
         IN [AmmState EXCEPT
                !.yes[m] = @ - yes_amount,
                !.no[m] = @ - no_amount,
                !.k[m] = (pool_yes_reserve[m] - yes_amount) * (pool_no_reserve[m] - no_amount),
                !.lp_tokens[m][provider] = @ - lp_tokens,
                !.lp_supply[m] = BurnSupply(@, lp_tokens)]

remove_liquidity(provider, m, lp_tokens) ==
    LET r == RemoveResult(provider, m, lp_tokens)
        yes_amount == (lp_tokens * pool_yes_reserve[m]) \div pool_lp_supply[m]
        no_amount == (lp_tokens * pool_no_reserve[m]) \div pool_lp_supply[m]
    IN
    IF r # "Ok" THEN Abort(r, RemoveWritten(provider, m, lp_tokens))
    ELSE
        /\ pool_yes_reserve' = [pool_yes_reserve EXCEPT ![m] = @ - yes_amount]
        /\ pool_no_reserve' = [pool_no_reserve EXCEPT ![m] = @ - no_amount]
        /\ pool_k' = [pool_k EXCEPT ![m] =
               (pool_yes_reserve[m] - yes_amount) * (pool_no_reserve[m] - no_amount)]
        /\ pool_lp_tokens' = [pool_lp_tokens EXCEPT ![m][provider] = @ - lp_tokens]
        /\ pool_lp_supply' = [pool_lp_supply EXCEPT ![m] = BurnSupply(@, lp_tokens)]
        /\ balance' = Transfer(balance, AmmContract, provider, yes_amount + no_amount)
        /\ amm_ops' = amm_ops + 1
        /\ ret' = "Ok"
        /\ ret_val' = <<yes_amount, no_amount>>
        /\ UNCHANGED <<now, challengeVars, marketVars, histVars, oracleVars, amm_initialized, pool_exists,
                       user_shares>>

\* ---------------------------------------------------------- AMM specification
NextAMM ==
    \/ amm_initialize
    \/ \E u \in Users, m \in AmmMarkets, a \in AmmAmounts :
           amm_ops < MaxAmmOps /\ create_pool(u, m, a)
    \/ \E u \in Users, m \in AmmMarkets, o \in Outcomes, a \in AmmAmounts, mn \in MinOuts :
           amm_ops < MaxAmmOps /\ buy_shares(u, m, o, a, mn)
    \/ \E u \in Users, m \in AmmMarkets, o \in Outcomes, a \in AmmAmounts, mn \in MinOuts :
           amm_ops < MaxAmmOps /\ sell_shares(u, m, o, a, mn)
    \/ \E u \in Users, m \in AmmMarkets, a \in AmmAmounts :
           amm_ops < MaxAmmOps /\ add_liquidity(u, m, a)
    \/ \E u \in Users, m \in AmmMarkets, a \in AmmAmounts :
           amm_ops < MaxAmmOps /\ remove_liquidity(u, m, a)

SpecAMM == Init /\ [][NextAMM]_vars

\* ============================================================ OracleManager
DISPUTE_PERIOD == 604800
CHALLENGE_STAKE_AMOUNT == 1000

Or0(x) == IF x = NONE THEN 0 ELSE x

\* ---------------------------------------------------- OracleManager::initialize
oracle_initialize(required) ==
    /\ oracle_admin' = TRUE
    /\ required_consensus' = required
    /\ oracle_count' = 0
    /\ ret' = "Ok"
    /\ ret_val' = <<>>
    /\ UNCHANGED <<now, challengeVars, balance, marketVars, histVars, ammVars, oracle_key,
                   mkt_res_time, attest_yes, attest_no, vote, voters, consensus_result>>

\* ----------------------------------------------- OracleManager::register_oracle
RegisterOracleResult(oracle) ==
    IF ~oracle_admin THEN "Panic"
    ELSE IF Or0(oracle_count) >= MAX_ORACLES THEN "Panic"
    ELSE IF oracle_key[oracle] # NONE THEN "Panic"
    ELSE "Ok"

register_oracle(oracle) ==
    LET r == RegisterOracleResult(oracle) IN
    IF r # "Ok" THEN Fail(r)
    ELSE
        /\ oracle_key' = [oracle_key EXCEPT ![oracle] = 1]
        /\ oracle_accuracy' = [oracle_accuracy EXCEPT ![oracle] = 100]
        /\ oracle_stake' = [oracle_stake EXCEPT ![oracle] = CHALLENGE_STAKE_AMOUNT * 10]
        /\ oracle_count' = Or0(oracle_count) + 1
        /\ ret' = "Ok"
        /\ ret_val' = <<>>
        /\ UNCHANGED <<now, challenge, market_challenged, challenger_reward,
                       oracle_reward, balance, marketVars, histVars, ammVars, oracle_admin,
                       required_consensus, mkt_res_time, attest_yes, attest_no,
                       vote, voters, consensus_result>>

\* ----------------------------------------------- OracleManager::register_market
register_market(m, res_time) ==
    IF ~oracle_admin THEN Fail("Panic")
    ELSE
        /\ mkt_res_time' = [mkt_res_time EXCEPT ![m] = res_time]
        /\ attest_yes' = [attest_yes EXCEPT ![m] = 0]
        /\ attest_no' = [attest_no EXCEPT ![m] = 0]
        /\ ret' = "Ok"
        /\ ret_val' = <<>>
        /\ UNCHANGED <<now, challengeVars, balance, marketVars, histVars, ammVars, oracle_admin,
                       required_consensus, oracle_count, oracle_key,
                       vote, voters, consensus_result>>

\* ---------------------------------------- OracleManager::get_attestation_counts
get_attestation_counts(m) == <<Or0(attest_yes[m]), Or0(attest_no[m])>>

\* -------------------------------------------- OracleManager::submit_attestation
\* Mutant: an oracle can attest again for the same market.
SubmitResult_NoVoteCheck(oracle, m, attestation_result) ==
    IF oracle_key[oracle] # 1 THEN "Panic"
    ELSE IF mkt_res_time[m] = NONE THEN "Panic"
    ELSE IF now < mkt_res_time[m] THEN "Panic"
    ELSE IF attestation_result > 1 THEN "Panic"
    ELSE "Ok"

SubmitResult(oracle, m, attestation_result) ==
    IF oracle_key[oracle] # 1 THEN "Panic"
    ELSE IF mkt_res_time[m] = NONE THEN "Panic"
    ELSE IF now < mkt_res_time[m] THEN "Panic"
    ELSE IF attestation_result > 1 THEN "Panic"
    ELSE IF vote[m][oracle] # NONE THEN "Panic"
    ELSE "Ok"

submit_attestation(oracle, m, attestation_result) ==
    LET r == SubmitResult(oracle, m, attestation_result) IN
    IF r # "Ok" THEN Fail(r)
    ELSE
        /\ vote' = [vote EXCEPT ![m][oracle] = attestation_result]
        /\ voters' = [voters EXCEPT ![m] = Append(@, oracle)]
        /\ attest_yes' = IF attestation_result = 1
                         THEN [attest_yes EXCEPT ![m] = Or0(@) + 1] ELSE attest_yes
        /\ attest_no' = IF attestation_result = 1
                        THEN attest_no ELSE [attest_no EXCEPT ![m] = Or0(@) + 1]
        /\ ret' = "Ok"
        /\ ret_val' = <<>>
        /\ UNCHANGED <<now, challengeVars, balance, marketVars, histVars, ammVars, oracle_admin,
                       required_consensus, oracle_count, oracle_key, mkt_res_time,
                       consensus_result>>

\* ----------------------------------------------- OracleManager::check_consensus
\* The loop over the voter list: <<yes_votes, no_votes>> after the first n voters.
RECURSIVE CountVotes(_, _)
CountVotes(m, n) ==
    IF n = 0 THEN <<0, 0>>
    ELSE LET c == CountVotes(m, n - 1)
             v == Or0(vote[m][voters[m][n]])
         IN IF v = 1 THEN <<c[1] + 1, c[2]>> ELSE <<c[1], c[2] + 1>>

\* Mutant: the leading outcome only has to draw level with the other one.
Decide_TieWins(yes_votes, no_votes, threshold) ==
    IF yes_votes >= threshold /\ yes_votes >= no_votes THEN <<TRUE, 1>>
    ELSE IF no_votes >= threshold /\ no_votes >= yes_votes THEN <<TRUE, 0>>
    ELSE <<FALSE, 0>>

Decide(yes_votes, no_votes, threshold) ==
    IF yes_votes >= threshold /\ yes_votes > no_votes THEN <<TRUE, 1>>
    ELSE IF no_votes >= threshold /\ no_votes > yes_votes THEN <<TRUE, 0>>
    ELSE IF yes_votes >= threshold /\ no_votes >= threshold /\ yes_votes = no_votes
         THEN <<FALSE, 0>>
    ELSE <<FALSE, 0>>

check_consensus(m) ==
    LET threshold == Or0(required_consensus) IN
    IF Len(voters[m]) < threshold THEN <<FALSE, 0>>
    ELSE LET c == CountVotes(m, Len(voters[m]))
         IN Decide(c[1], c[2], threshold)

\* ------------------------------------------- OracleManager::finalize_resolution
\* Built with the "market" feature: the call ends with Market.resolve_market,
\* whose panic reverts the whole call.
\* Mutant: the dispute period is not awaited.
FinalizeResult_NoDisputePeriod(m) ==
    IF mkt_res_time[m] = NONE THEN "Panic"
    ELSE IF ~check_consensus(m)[1] THEN "Panic"
    ELSE IF ResolveResult # "Ok" THEN "Panic"
    ELSE "Ok"

FinalizeResult(m) ==
    IF mkt_res_time[m] = NONE THEN "Panic"
    ELSE IF ~check_consensus(m)[1] THEN "Panic"
    ELSE IF now < mkt_res_time[m] + DISPUTE_PERIOD THEN "Panic"
    ELSE IF ResolveResult # "Ok" THEN "Panic"
    ELSE "Ok"

finalize_resolution(m) ==
    LET r == FinalizeResult(m) IN
    IF r # "Ok" THEN Fail(r)
    ELSE
        /\ consensus_result' = [consensus_result EXCEPT ![m] = check_consensus(m)[2]]
        /\ ResolveWrites
        /\ ret' = "Ok"
        /\ ret_val' = <<>>
        /\ UNCHANGED <<now, challengeVars, balance, histVars, ammVars, oracle_admin,
                       required_consensus, oracle_count, oracle_key, mkt_res_time,
                       attest_yes, attest_no, vote, voters>>

\* ----------------------------------------- OracleManager::challenge_attestation
ChallengeResult(oracle, m) ==
    IF oracle_key[oracle] # 1 THEN "Panic"
    ELSE IF vote[m][oracle] = NONE THEN "Panic"
    ELSE IF challenge[m][oracle].has THEN "Panic"
    ELSE "Ok"

challenge_attestation(challenger, oracle, m) ==
    LET r == ChallengeResult(oracle, m) IN
    IF r # "Ok" THEN Fail(r)
    ELSE
        /\ challenge' = [challenge EXCEPT ![m][oracle] =
                            [has |-> TRUE, challenger |-> challenger,
                             stake |-> CHALLENGE_STAKE_AMOUNT, resolved |-> FALSE]]
        /\ market_challenged' = [market_challenged EXCEPT ![m] = TRUE]
        /\ ret' = "Ok"
        /\ ret_val' = <<>>
        /\ UNCHANGED <<now, balance, marketVars, histVars, ammVars, oracleVars,
                       oracle_accuracy, oracle_stake, challenger_reward, oracle_reward>>

\* ------------------------------------------ OracleManager::has_active_challenge
has_active_challenge(m) == market_challenged[m]

\* --------------------------------------------- OracleManager::resolve_challenge
\* Mutant: a resolved challenge can be resolved again.
ResolveChallengeResult_NoResolvedCheck(oracle, m) ==
    IF ~oracle_admin THEN "Panic"
    ELSE IF ~challenge[m][oracle].has THEN "Panic"
    ELSE "Ok"

ResolveChallengeResult(oracle, m) ==
    IF ~oracle_admin THEN "Panic"
    ELSE IF ~challenge[m][oracle].has THEN "Panic"
    ELSE IF challenge[m][oracle].resolved THEN "Panic"
    ELSE "Ok"

\* Mutant: a valid challenge costs the oracle 10 points.
new_reputation_Minus10(accuracy, challenge_valid) ==
    IF challenge_valid THEN (IF accuracy >= 10 THEN accuracy - 10 ELSE 0)
    ELSE IF accuracy <= 95 THEN accuracy + 5 ELSE 100

\* accuracy.saturating_sub(20), or accuracy + 5 capped at 100.
new_reputation(accuracy, challenge_valid) ==
    IF challenge_valid THEN (IF accuracy >= 20 THEN accuracy - 20 ELSE 0)
    ELSE IF accuracy <= 95 THEN accuracy + 5 ELSE 100

resolve_challenge(oracle, m, challenge_valid) ==
    LET r == ResolveChallengeResult(oracle, m)
        accuracy == IF oracle_accuracy[oracle] = NONE THEN 100 ELSE oracle_accuracy[oracle]
        stake == Or0(oracle_stake[oracle])
        slashed_amount == stake \div 2
        deregister == challenge_valid /\ new_reputation(accuracy, challenge_valid) < 50
    IN
    IF r # "Ok" THEN Fail(r)
    ELSE
        /\ oracle_stake' = IF challenge_valid
                           THEN [oracle_stake EXCEPT ![oracle] = stake - slashed_amount]
                           ELSE oracle_stake
        /\ challenger_reward' =
               IF challenge_valid
               THEN [challenger_reward EXCEPT ![challenge[m][oracle].challenger] =
                                                  @ + slashed_amount]
               ELSE challenger_reward
        /\ oracle_reward' = IF challenge_valid THEN oracle_reward
                            ELSE [oracle_reward EXCEPT ![oracle] = @ + CHALLENGE_STAKE_AMOUNT]
        /\ oracle_key' = IF deregister THEN [oracle_key EXCEPT ![oracle] = 0] ELSE oracle_key
        /\ oracle_count' = IF deregister /\ Or0(oracle_count) > 0
                           THEN oracle_count - 1 ELSE oracle_count
        /\ oracle_accuracy' = [oracle_accuracy EXCEPT ![oracle] =
                                    new_reputation(accuracy, challenge_valid)]
        /\ challenge' = [challenge EXCEPT ![m][oracle].resolved = TRUE]
        /\ market_challenged' = [market_challenged EXCEPT ![m] = FALSE]
        /\ ret' = "Ok"
        /\ ret_val' = <<>>
        /\ UNCHANGED <<now, balance, marketVars, histVars, ammVars, oracle_admin,
                       required_consensus, mkt_res_time, attest_yes, attest_no,
                       vote, voters, consensus_result>>

\* ---------------------------------------- OracleManager::get_consensus_result
\* NONE stands for the panic "Consensus result not found".
get_consensus_result(m) == consensus_result[m]

\* ------------------------------------------------------- oracle specification
ResolutionTimes == {d[2] : d \in Deadlines}

NextOracle ==
    \/ \E t \in Times : Tick(t)
    \/ init_calls < 1 /\ \E d \in MarketDeadlines : initialize(MarketId, Creator, d[1], d[2])
    \/ close_market
    \/ resolve_market
    \/ \E required \in Thresholds : oracle_initialize(required)
    \/ \E o \in Oracles : register_oracle(o)
    \/ \E m \in OracleMarkets, t \in ResolutionTimes : register_market(m, t)
    \/ \E o \in Oracles, m \in OracleMarkets, r \in Outcomes : submit_attestation(o, m, r)
    \/ \E m \in OracleMarkets : finalize_resolution(m)

SpecOracle == Init /\ [][NextOracle]_vars

\* Attestation, challenge arbitration and finalization by two oracles under
\* a threshold of 1.
Challengers == {"u1"}
ChallengedOracles == {"o1", "o2"}

NextChallenge ==
    \/ \E t \in Times : Tick(t)
    \/ init_calls < 1 /\ \E d \in Deadlines : initialize(MarketId, Creator, d[1], d[2])
    \/ close_market
    \/ oracle_initialize(1)
    \/ \E o \in ChallengedOracles : register_oracle(o)
    \/ \E m \in OracleMarkets, t \in ResolutionTimes : register_market(m, t)
    \/ \E o \in ChallengedOracles, m \in OracleMarkets, r \in Outcomes :
           submit_attestation(o, m, r)
    \/ \E u \in Challengers, o \in ChallengedOracles, m \in OracleMarkets :
           challenge_attestation(u, o, m)
    \/ \E o \in ChallengedOracles, m \in OracleMarkets, v \in BOOLEAN :
           resolve_challenge(o, m, v)
    \/ \E m \in OracleMarkets : finalize_resolution(m)

SpecChallenge == Init /\ [][NextChallenge]_vars

\* Attestation and finalization by three oracles under a threshold of 1,
\* against a market that one user can dispute.
NextRefinalize ==
    \/ \E t \in Times : Tick(t)
    \/ init_calls < 1 /\ \E d \in Deadlines : initialize(MarketId, Creator, d[1], d[2])
    \/ close_market
    \/ \E u \in Challengers : dispute_market(u)
    \/ oracle_initialize(1)
    \/ \E o \in Oracles : register_oracle(o)
    \/ \E m \in OracleMarkets, t \in ResolutionTimes : register_market(m, t)
    \/ \E o \in Oracles, m \in OracleMarkets, r \in Outcomes : submit_attestation(o, m, r)
    \/ \E m \in OracleMarkets : finalize_resolution(m)

SpecRefinalize == Init /\ [][NextRefinalize]_vars

\* The registry under arbitration: the admin initializes once, registers
\* oracles and markets; oracle o1 attests in every market and its attestations
\* are challenged and arbitrated.
Arbitrated == {"o1"}

NextArbitration ==
    \/ ~oracle_admin /\ oracle_initialize(1)
    \/ \E o \in RegistryOracles : register_oracle(o)
    \/ \E m \in ArbitrationMarkets : register_market(m, 0)
    \/ \E o \in Arbitrated, m \in ArbitrationMarkets : submit_attestation(o, m, 1)
    \/ \E u \in Challengers, o \in Arbitrated, m \in ArbitrationMarkets :
           challenge_attestation(u, o, m)
    \/ \E o \in Arbitrated, m \in ArbitrationMarkets, v \in BOOLEAN :
           resolve_challenge(o, m, v)

SpecArbitration == Init /\ [][NextArbitration]_vars

\* ==================================================================== claims

\* ---- C1 ----------------------------------------------------------------
\* C1: each user receives at most one claim_winnings payout per market; once
\* claim_winnings has succeeded for a user no later claim_winnings call by
\* that user pays again.
C1_AtMostOnePayout == \A u \in Users : payouts[u] <= 1

\* ---- C4 ----------------------------------------------------------------
\* C4: the status of an initialized market changes only along OPEN -> CLOSED
\* (close_market), CLOSED -> RESOLVED (resolve_market), RESOLVED -> DISPUTED
\* (dispute_market) and OPEN | CLOSED -> CANCELLED (cancel_market).
C4_Edge ==
    \/ /\ market_state = STATE_OPEN /\ market_state' = STATE_CLOSED
       /\ close_market
    \/ /\ market_state = STATE_CLOSED /\ market_state' = STATE_RESOLVED
       /\ resolve_market
    \/ /\ market_state = STATE_RESOLVED /\ market_state' = STATE_DISPUTED
       /\ \E u \in Users : dispute_market(u)
    \/ /\ market_state \in {STATE_OPEN, STATE_CLOSED} /\ market_state' = STATE_CANCELLED
       /\ \E c \in Users : cancel_market(c)

C4_StatusEdges ==
    [][(market_state # NONE /\ market_state' # market_state) => C4_Edge]_vars

\* ---- C7 ----------------------------------------------------------------
\* The case C7 is about: the market is OPEN before closing_time and the user
\* holds a live Commitment and no UserPrediction.
RevealPre(u) ==
    /\ market_state = STATE_OPEN
    /\ now < closing_time
    /\ commitments[u].has
    /\ ~predictions[u].has

HashMatches(u, mid, o, s) == Hash(mid, o, s) = commitments[u].commit_hash

\* C7 as stated: every mismatch (outcome, salt or amount) is answered with
\* InvalidReveal.
C7_MismatchIsInvalidReveal ==
    \A u \in Users : RevealPre(u) =>
        \A mid \in MarketIds, o \in Outcomes, a \in Amounts, s \in Salts :
            (~HashMatches(u, mid, o, s) \/ a # commitments[u].amount)
                => RevealResult(u, mid, o, a, s) = "InvalidReveal"

C7_ResultRule ==
    \A u \in Users : RevealPre(u) =>
        \A mid \in MarketIds, o \in Outcomes, a \in Amounts, s \in Salts :
            LET r == RevealResult(u, mid, o, a, s) IN
            /\ (r = "Ok") <=> (HashMatches(u, mid, o, s) /\ a = commitments[u].amount)
            /\ a # commitments[u].amount => r = "InvalidAmount"
            /\ (a = commitments[u].amount /\ ~HashMatches(u, mid, o, s))
                   => r = "InvalidReveal"

C7_Effect ==
    /\ ret' \in {"InvalidReveal", "InvalidAmount"} =>
           UNCHANGED <<commitments, predictions, yes_pool, no_pool, pending_count, balance>>
    /\ \A u \in Users : (~predictions[u].has /\ predictions'[u].has) =>
           /\ RevealPre(u)
           /\ \E mid \in MarketIds, s \in Salts :
                  HashMatches(u, mid, predictions'[u].outcome, s)
           /\ predictions'[u].amount = commitments[u].amount
           /\ ~commitments'[u].has
           /\ yes_pool' + no_pool' = yes_pool + no_pool + commitments[u].amount

\* C7 (amended): reveal_prediction succeeds iff the hash of (market_id, outcome,
\* salt) equals the stored commit hash and the amount equals the committed
\* amount; a wrong amount fails with InvalidAmount, a wrong outcome, salt or
\* market id with the right amount fails with InvalidReveal, and a failed
\* reveal leaves the Commitment, the pools and the pending count unchanged.
C7_RevealRoundTrip == [](C7_ResultRule) /\ [][C7_Effect]_vars

\* A mismatching reveal has just been rejected for a user whose Commitment is live.
C7_Witness ==
    /\ ret = "InvalidReveal"
    /\ \E u \in Users : RevealPre(u)

\* ---- C10 ---------------------------------------------------------------
\* winning_outcome is written by resolve_market only and never removed: it is
\* set exactly when resolve_market has succeeded before.
\* C11: an AMM call that fails leaves reserves, stored k, LP supply, LP
\* balances, user share balances and ledger balances as they were before the
\* call, whichever writes it had made before failing.
C11_FailedStep == ret' = "Panic" => UNCHANGED <<poolVars, balance>>

IsFloorDiv(q, n, d) == q * d <= n /\ n < (q + 1) * d

C12_Step ==
    \A u \in Users :
        payouts'[u] = payouts[u] + 1 =>
            LET n == predictions[u].amount * (winner_shares + loser_shares) IN
            \E g \in 0 .. n :
                /\ IsFloorDiv(g, n, winner_shares)
                /\ \E f \in 0 .. g :
                       /\ IsFloorDiv(f, g, 10)
                       /\ balance'[u] = balance[u] + (g - f)
                       /\ balance'[MarketContract] = balance[MarketContract] - (g - f)
                       /\ ret_val' = <<g - f>>

C12_Example ==
    /\ gross_payout(500, 1000, 500) = 750
    /\ fee(750) = 75
    /\ 750 - fee(gross_payout(500, 1000, 500)) = 675

C12_PayoutFormula == [](C12_Example) /\ [][C12_Step]_vars

\* A winner has been paid out of a pool that holds a loser's stake.
C12_Witness ==
    /\ ret = "Ok"
    /\ ret_val # <<>>
    /\ loser_shares > 0
    /\ \E u \in Users : predictions[u].has /\ predictions[u].claimed

\* C13: claim_winnings succeeds only in RESOLVED, for a caller whose
\* UserPrediction has the winning outcome and is not yet claimed; a failing
\* call transfers nothing and leaves every claimed flag as it was.
CanClaim(u) ==
    /\ market_state = STATE_RESOLVED
    /\ predictions[u].has
    /\ predictions[u].outcome = winning_outcome
    /\ ~predictions[u].claimed

C13_ResultRule == \A u \in Users : ClaimResult(u) = "Ok" => CanClaim(u)

C13_Step ==
    /\ \A u \in Users : payouts'[u] # payouts[u] => CanClaim(u)
    /\ \A u \in Users :
           (predictions[u].has /\ predictions'[u].has
                /\ predictions'[u].claimed # predictions[u].claimed)
               => payouts'[u] = payouts[u] + 1 /\ predictions'[u].claimed
    /\ ret' = "Panic" => UNCHANGED <<balance, predictions>>

C13_ClaimGuards == [](C13_ResultRule) /\ [][C13_Step]_vars

\* A call has failed while a dispute freezes the payout of an unclaimed
\* winning prediction and a losing prediction exists.
C13_Witness ==
    /\ ret = "Panic"
    /\ market_state = STATE_DISPUTED
    /\ \E u, v \in Users :
           /\ predictions[u].has /\ predictions[u].outcome = winning_outcome
           /\ ~predictions[u].claimed
           /\ predictions[v].has /\ predictions[v].outcome # winning_outcome

\* C14: in an initialized market commit_prediction succeeds only if the
\* market is OPEN, now < closing_time, amount > 0 and the user has no live
\* Commitment; each violation returns its typed error and changes nothing;
\* a success moves exactly `amount` into escrow, stores one Commitment and
\* raises the pending count by 1.
CommitErrors == {"InvalidMarketState", "MarketClosed", "InvalidAmount", "DuplicateCommit"}

C14_ResultRule ==
    market_state # NONE =>
        \A u \in Users, a \in Amounts :
            LET r == CommitResult(u, a)
                violated == \/ market_state # STATE_OPEN
                            \/ now >= closing_time
                            \/ a <= 0
                            \/ commitments[u].has
            IN /\ violated => r \in CommitErrors
               /\ r = "Ok" => ~violated
               /\ r = "InvalidMarketState" => market_state # STATE_OPEN
               /\ r = "MarketClosed" => now >= closing_time
               /\ r = "InvalidAmount" => a <= 0
               /\ r = "DuplicateCommit" => commitments[u].has

C14_Step ==
    /\ ret' \in CommitErrors =>
           UNCHANGED <<commitments, pending_count, participants, balance>>
    /\ \A u \in Users :
           (commitments'[u] # commitments[u] /\ commitments'[u].has) =>
               LET a == commitments'[u].amount IN
               /\ ~commitments[u].has
               /\ market_state = STATE_OPEN /\ now < closing_time /\ a > 0
               /\ balance'[u] = balance[u] - a
               /\ balance'[MarketContract] = balance[MarketContract] + a
               /\ \A v \in Users \ {u} :
                      balance'[v] = balance[v] /\ commitments'[v] = commitments[v]
               /\ pending_count' = pending_count + 1
               /\ participants' = Append(participants, u)

C14_CommitGuards == [](C14_ResultRule) /\ [][C14_Step]_vars

\* A second commit of a user with a live Commitment has been rejected.
C14_Witness ==
    /\ ret = "DuplicateCommit"
    /\ \E u \in Users : commitments[u].has /\ balance[u] < InitialBalance
    /\ pending_count > 0

\* C15: the clock never goes back, and no lifecycle step happens on the
\* wrong side of its deadline: the market is closed only at or after
\* closing_time, resolved only at or after resolution_time, and a Commitment
\* or UserPrediction is created only before closing_time.
C15_Step ==
    /\ now' >= now
    /\ (market_state' = STATE_CLOSED /\ market_state # STATE_CLOSED) => now >= closing_time
    /\ (market_state' = STATE_RESOLVED /\ market_state # STATE_RESOLVED)
           => now >= resolution_time
    /\ \A u \in Users :
           /\ (commitments'[u].has /\ commitments'[u] # commitments[u]) => now < closing_time
           /\ (predictions'[u].has /\ ~predictions[u].has) => now < closing_time

C15_ResultRule ==
    /\ CloseResult = "Ok" => now >= closing_time
    /\ ResolveResult = "Ok" => now >= resolution_time
    /\ \A u \in Users, a \in Amounts : CommitResult(u, a) = "Ok" => now < closing_time
    /\ \A u \in Users, mid \in MarketIds, o \in Outcomes, a \in Amounts, s \in Salts :
           RevealResult(u, mid, o, a, s) = "Ok" => now < closing_time

C15_Deadlines == [](C15_ResultRule) /\ [][C15_Step]_vars

\* The market was closed and resolved with a revealed prediction in it, and
\* a call made after the deadline has been refused.
C15_Witness ==
    /\ market_state = STATE_RESOLVED
    /\ now >= resolution_time
    /\ \E u \in Users : predictions[u].has
    /\ ret \in {"MarketClosed", "InvalidMarketState"}

\* C16: dispute_market succeeds only in RESOLVED and while
\* now < resolution_time + 604800; a success moves the 1000-unit stake from
\* the disputer to the market and sets DISPUTED; a failure leaves the status.
C16_ResultRule ==
    \A u \in Users :
        DisputeResult(u) = "Ok" =>
            market_state = STATE_RESOLVED /\ now < resolution_time + 604800

C16_Step ==
    /\ (market_state' = STATE_DISPUTED /\ market_state # STATE_DISPUTED) =>
           /\ market_state = STATE_RESOLVED
           /\ now < resolution_time + 604800
           /\ \E u \in Users :
                  /\ balance'[u] = balance[u] - 1000
                  /\ balance'[MarketContract] = balance[MarketContract] + 1000
                  /\ \A v \in Users \ {u} : balance'[v] = balance[v]
    /\ ret' = "Panic" => market_state' = market_state /\ balance' = balance

C16_DisputeGuards == [](C16_ResultRule) /\ [][C16_Step]_vars

\* A dispute is open, and a later dispute_market, close_market, or other
\* call has been refused.
C16_Witness ==
    /\ market_state = STATE_DISPUTED
    /\ balance[MarketContract] >= 1000
    /\ ret = "Panic"

\* C17: a successful cancel_market has paid every participant exactly the
\* amount of their live Commitment plus that of their UserPrediction, removed
\* those records, emptied the participant list and set CANCELLED; only the
\* stored creator can cancel.
Escrowed(u) ==
    (IF commitments[u].has THEN commitments[u].amount ELSE 0)
        + (IF predictions[u].has THEN predictions[u].amount ELSE 0)

RECURSIVE SumEscrowed(_)
SumEscrowed(S) ==
    IF S = {} THEN 0
    ELSE LET u == CHOOSE x \in S : TRUE IN Escrowed(u) + SumEscrowed(S \ {u})

C17_ResultRule == \A c \in Users : CancelResult(c) = "Ok" => c = creator

C17_Step ==
    (market_state' = STATE_CANCELLED /\ market_state # STATE_CANCELLED) =>
        /\ \A u \in Users :
               /\ balance'[u] = balance[u] + Escrowed(u)
               /\ ~commitments'[u].has
               /\ ~predictions'[u].has
        /\ balance'[MarketContract] = balance[MarketContract] - SumEscrowed(Users)
        /\ participants' = <<>>

C17_CancelRefunds == [](C17_ResultRule) /\ [][C17_Step]_vars

\* The market was cancelled while it held a live Commitment and a revealed
\* prediction, and the escrow is empty.
C17_Witness ==
    /\ market_state = STATE_CANCELLED
    /\ ret = "Ok"
    /\ pending_count > 0
    /\ yes_pool + no_pool > 0
    /\ balance[MarketContract] = 0
    /\ participants = <<>>

\* C18: finalize_resolution succeeds only for a market registered with the
\* oracle, whose consensus is reached, at or after resolution_time + 604800;
\* a failing call records no consensus result.
CanFinalize(m) ==
    /\ mkt_res_time[m] # NONE
    /\ check_consensus(m)[1]
    /\ now >= mkt_res_time[m] + 604800

C18_ResultRule == \A m \in OracleMarkets : FinalizeResult(m) = "Ok" => CanFinalize(m)

C18_Step ==
    /\ \A m \in OracleMarkets :
           consensus_result'[m] # consensus_result[m] =>
               CanFinalize(m) /\ consensus_result'[m] = check_consensus(m)[2]
    /\ ret' = "Panic" => consensus_result' = consensus_result

C18_FinalizeGuards == [](C18_ResultRule) /\ [][C18_Step]_vars

\* A consensus result was recorded after the dispute period and the market
\* contract took the resolution.
C18_Witness ==
    \E m \in OracleMarkets :
        /\ consensus_result[m] # NONE
        /\ now >= mkt_res_time[m] + 604800
        /\ market_state = STATE_RESOLVED
        /\ ret = "Ok"

\* C19: finalize_resolution never succeeds for a market while a challenge
\* against one of its attestations is unresolved, or while the market's
\* active-challenge mark is set.
UnresolvedChallenge(m) ==
    \E o \in Oracles : challenge[m][o].has /\ ~challenge[m][o].resolved

C19_NoFinalizeUnderChallenge ==
    \A m \in OracleMarkets :
        FinalizeResult(m) = "Ok" => ~UnresolvedChallenge(m) /\ ~has_active_challenge(m)

\* C20: once finalize_resolution has recorded a consensus result for a
\* market, get_consensus_result returns that value in every later state.
C20_Step ==
    \A m \in OracleMarkets :
        get_consensus_result(m) # NONE =>
            get_consensus_result(m)' = get_consensus_result(m)

C20_ResultIsFinal == [][C20_Step]_vars

\* C21: submit_attestation succeeds only for a currently registered oracle,
\* a registered market, now >= its resolution_time, an outcome of 0 or 1 and
\* no earlier attestation of this oracle for the market; an oracle has at
\* most one attestation per market and a written one never changes.
CanAttest(o, m, r) ==
    /\ oracle_key[o] = 1
    /\ mkt_res_time[m] # NONE
    /\ now >= mkt_res_time[m]
    /\ r \in {0, 1}
    /\ vote[m][o] = NONE

C21_ResultRule ==
    \A o \in RegistryOracles, m \in ArbitrationMarkets, r \in Outcomes :
        SubmitResult(o, m, r) = "Ok" => CanAttest(o, m, r)

C21_OnePerOracle ==
    \A m \in ArbitrationMarkets :
        /\ \A i, j \in 1 .. Len(voters[m]) : voters[m][i] = voters[m][j] => i = j
        /\ \A o \in RegistryOracles :
               vote[m][o] # NONE <=> \E i \in 1 .. Len(voters[m]) : voters[m][i] = o

C21_Step ==
    \A o \in RegistryOracles, m \in ArbitrationMarkets :
        /\ vote[m][o] # NONE => vote'[m][o] = vote[m][o]
        /\ vote'[m][o] # vote[m][o] => CanAttest(o, m, vote'[m][o])

C21_AttestationGuards == [](C21_ResultRule /\ C21_OnePerOracle) /\ [][C21_Step]_vars

\* Two oracles have attested, with different outcomes, and a further
\* submit_attestation was refused.
C21_Witness ==
    \E m \in ArbitrationMarkets, o, p \in RegistryOracles :
        /\ vote[m][o] = 1
        /\ vote[m][p] = 0
        /\ ret = "Panic"
        /\ market_challenged[m]

\* C22: get_attestation_counts(market) is (attestations with outcome 1,
\* attestations with outcome 0), the tally check_consensus makes of the votes.
C22_CountersMatchVotes ==
    \A m \in ArbitrationMarkets :
        get_attestation_counts(m) = CountVotes(m, Len(voters[m]))

\* C23: a challenge for a (market, oracle) pair is created only if the oracle
\* has an attestation for the market and the pair has no challenge record;
\* resolve_challenge fails without a record or on a resolved one, and a
\* resolved challenge never becomes unresolved again.
C23_ResultRule ==
    \A m \in ArbitrationMarkets, o \in RegistryOracles :
        /\ ChallengeResult(o, m) = "Ok" => vote[m][o] # NONE /\ ~challenge[m][o].has
        /\ ResolveChallengeResult(o, m) = "Ok" =>
               challenge[m][o].has /\ ~challenge[m][o].resolved

C23_Step ==
    \A m \in ArbitrationMarkets, o \in RegistryOracles :
        challenge'[m][o] # challenge[m][o] =>
            \/ /\ ~challenge[m][o].has
               /\ vote[m][o] # NONE
               /\ challenge'[m][o].has
               /\ ~challenge'[m][o].resolved
            \/ /\ challenge[m][o].has
               /\ ~challenge[m][o].resolved
               /\ challenge'[m][o] = [challenge[m][o] EXCEPT !.resolved = TRUE]

C23_ChallengeLifecycle == [](C23_ResultRule) /\ [][C23_Step]_vars

\* One challenge is resolved, another one is open, and a call was refused.
C23_Witness ==
    \E m \in ArbitrationMarkets, o, p \in RegistryOracles :
        /\ challenge[m][o].has /\ challenge[m][o].resolved
        /\ challenge[m][p].has /\ ~challenge[m][p].resolved
        /\ ret = "Panic"

\* C24: a successful challenge_attestation moves the 1000-unit stake out of
\* the challenger's ledger balance.
C24_Step ==
    \A m \in ArbitrationMarkets, o \in RegistryOracles :
        (~challenge[m][o].has /\ challenge'[m][o].has) =>
            balance'[challenge'[m][o].challenger]
                = balance[challenge'[m][o].challenger] - 1000

C24_StakeIsPaid == [][C24_Step]_vars

\* C25: a valid resolve_challenge lowers the accuracy by 20 (floor 0), moves
\* floor(stake / 2) from the oracle's stake to the challenger's reward and
\* deregisters the oracle iff the new accuracy is below 50; an invalid one
\* raises the accuracy by 5 (cap 100), keeps the stake and credits 1000 to the
\* oracle.  Accuracy stays in 0..100 and a registered oracle has at least 50.
Accuracies == 0 .. 100

C25_ReputationRule ==
    \A a \in Accuracies :
        /\ new_reputation(a, TRUE) \in Accuracies
        /\ new_reputation(a, FALSE) \in Accuracies
        /\ a >= 20 => new_reputation(a, TRUE) = a - 20
        /\ a < 20 => new_reputation(a, TRUE) = 0
        /\ a <= 95 => new_reputation(a, FALSE) = a + 5
        /\ a > 95 => new_reputation(a, FALSE) = 100

C25_AccuracyRange ==
    \A o \in RegistryOracles :
        /\ oracle_accuracy[o] # NONE => oracle_accuracy[o] \in Accuracies
        /\ oracle_key[o] = 1 => oracle_accuracy[o] \in 50 .. 100

C25_ValidEffect(o, c) ==
    LET half == oracle_stake[o] \div 2
        lowered == IF oracle_accuracy[o] >= 20 THEN oracle_accuracy[o] - 20 ELSE 0
    IN
    /\ oracle_accuracy'[o] = lowered
    /\ oracle_stake'[o] = oracle_stake[o] - half
    /\ challenger_reward'[c] = challenger_reward[c] + half
    /\ oracle_reward' = oracle_reward
    /\ lowered < 50 => oracle_key'[o] = 0
    /\ lowered >= 50 => oracle_key'[o] = oracle_key[o]

C25_InvalidEffect(o) ==
    /\ oracle_accuracy'[o] = IF oracle_accuracy[o] + 5 > 100 THEN 100
                             ELSE oracle_accuracy[o] + 5
    /\ oracle_stake' = oracle_stake
    /\ oracle_reward'[o] = oracle_reward[o] + 1000
    /\ challenger_reward' = challenger_reward
    /\ oracle_key' = oracle_key

C25_Step ==
    \A m \in ArbitrationMarkets, o \in RegistryOracles :
        (challenge[m][o].has /\ ~challenge[m][o].resolved /\ challenge'[m][o].resolved)
            => \/ C25_ValidEffect(o, challenge[m][o].challenger)
               \/ C25_InvalidEffect(o)

C25_ArbitrationEffects ==
    [](C25_ReputationRule /\ C25_AccuracyRange) /\ [][C25_Step]_vars

\* Three valid challenges and an invalid one: the oracle is deregistered at
\* accuracy 45, an eighth of its stake is left and both rewards were credited.
C25_Witness ==
    \E o \in RegistryOracles, u \in Users :
        /\ oracle_key[o] = 0
        /\ oracle_accuracy[o] = 45
        /\ oracle_stake[o] = 1250
        /\ challenger_reward[u] = 8750
        /\ oracle_reward[o] = 1000

\* C26: at most MAX_ORACLES oracles are registered at the same time, for any
\* sequence of register_oracle, challenge_attestation and resolve_challenge.
RegisteredOracles == {o \in RegistryOracles : oracle_key[o] = 1}

C26_RegistrationCap == Cardinality(RegisteredOracles) <= MAX_ORACLES

\* C27: a successful buy_shares(outcome, amount, min_shares) charges
\* fee = floor(amount * 20 / 10000), credits the buyer
\* shares_out = floor(a * R_out / (R_in + a)) with a = amount - fee, sets
\* R_in to R_in + a and R_out to R_out - shares_out, pulls exactly `amount`
\* from the buyer and returns shares_out >= min_shares.
C27_Effect(u, m, o, amount, min_shares) ==
    LET R_out == ReserveOf(m, o)
        R_in == OtherReserveOf(m, o)
        R_in_new == IF o = 1 THEN pool_no_reserve'[m] ELSE pool_yes_reserve'[m]
        R_out_new == IF o = 1 THEN pool_yes_reserve'[m] ELSE pool_no_reserve'[m]
        a == R_in_new - R_in
        shares_out == user_shares'[m][u][o] - user_shares[m][u][o]
    IN
    /\ IsFloorDiv(amount - a, amount * 20, 10000)
    /\ IsFloorDiv(shares_out, a * R_out, R_in + a)
    /\ shares_out >= min_shares
    /\ ret_val' = <<shares_out>>
    /\ user_shares' = [user_shares EXCEPT ![m][u][o] = @ + shares_out]
    /\ R_out_new = R_out - shares_out
    /\ balance' = [balance EXCEPT ![u] = @ - amount, ![AmmContract] = @ + amount]
    /\ \A n \in AmmMarkets \ {m} :
           /\ pool_yes_reserve'[n] = pool_yes_reserve[n]
           /\ pool_no_reserve'[n] = pool_no_reserve[n]

C27_Step ==
    \A u \in Users, m \in AmmMarkets, o \in {0, 1}, a \in AmmAmounts, mn \in MinOuts :
        (/\ ret' = "Ok"
         /\ amm_ops' # amm_ops
         /\ balance'[u] = balance[u] - a
         /\ buy_shares(u, m, o, a, mn)) => C27_Effect(u, m, o, a, mn)

C28_Effect(u, m, o, shares, min_payout) ==
    LET R_own == ReserveOf(m, o)
        R_other == OtherReserveOf(m, o)
        R_own_new == IF o = 1 THEN pool_yes_reserve'[m] ELSE pool_no_reserve'[m]
        R_other_new == IF o = 1 THEN pool_no_reserve'[m] ELSE pool_yes_reserve'[m]
        payout == R_other - R_other_new
        paid == balance'[u] - balance[u]
    IN
    /\ user_shares[m][u][o] >= shares
    /\ IsFloorDiv(payout, shares * R_other, R_own + shares)
    /\ IsFloorDiv(payout - paid, payout * 20, 10000)
    /\ paid >= min_payout
    /\ ret_val' = <<paid>>
    /\ balance' = [balance EXCEPT ![u] = @ + paid, ![AmmContract] = @ - paid]
    /\ R_own_new = R_own + shares
    /\ user_shares' = [user_shares EXCEPT ![m][u][o] = @ - shares]

C28_Step ==
    /\ \A u \in Users, m \in AmmMarkets, o \in {0, 1}, a \in AmmAmounts, mn \in MinOuts :
           (/\ ret' = "Ok"
            /\ amm_ops' # amm_ops
            /\ a > 0
            /\ user_shares'[m][u][o] = user_shares[m][u][o] - a
            /\ sell_shares(u, m, o, a, mn)) => C28_Effect(u, m, o, a, mn)
    /\ \A u \in Users, m \in AmmMarkets, o \in {0, 1} :
           user_shares'[m][u][o] < user_shares[m][u][o] =>
               \E a \in AmmAmounts, mn \in MinOuts :
                   ret' = "Ok" /\ sell_shares(u, m, o, a, mn)

C28_SharesNonNegative ==
    \A u \in Users, m \in AmmMarkets, o \in {0, 1} : user_shares[m][u][o] >= 0

C29_Step ==
    \A u \in Users, m \in AmmMarkets, o \in {0, 1}, a \in AmmAmounts, mn \in MinOuts :
        /\ (ret' = "Ok" /\ amm_ops' # amm_ops /\ buy_shares(u, m, o, a, mn))
               => BuySharesOut(m, o, a) > 0
        /\ (ret' = "Ok" /\ amm_ops' # amm_ops /\ sell_shares(u, m, o, a, mn))
               => SellPayout(m, o, a) > 0

C29_NoZeroTrade == [][C29_Step]_vars

\* C30: create_pool(creator, market, n) succeeds only if the market has no
\* pool and n > 0; it puts n / 2 into each reserve, stores k = yes * no, sets
\* the LP supply and the creator's LP balance to n and pulls n from the
\* creator; a later create_pool for the market fails and changes nothing.
\* Example: n = 1,000,000 gives 500,000 / 500,000 and k = 250,000,000,000.
C30_ResultRule ==
    \A u \in Users, m \in AmmMarkets, n \in AmmAmounts :
        CreatePoolResult(u, m, n) = "Ok" => ~pool_exists[m] /\ n > 0

C30_Step ==
    \A m \in AmmMarkets :
        /\ pool_exists[m] => pool_exists'[m]
        /\ (~pool_exists[m] /\ pool_exists'[m]) =>
               LET n == pool_lp_supply'[m] IN
               /\ n > 0
               /\ IsFloorDiv(pool_yes_reserve'[m], n, 2)
               /\ pool_no_reserve'[m] = pool_yes_reserve'[m]
               /\ pool_k'[m] = pool_yes_reserve'[m] * pool_no_reserve'[m]
               /\ \E u \in Users :
                      /\ pool_lp_tokens'[m] = [v \in Users |-> IF v = u THEN n ELSE 0]
                      /\ balance' = [balance EXCEPT ![u] = @ - n, ![AmmContract] = @ + n]
        /\ \A u \in Users, n \in AmmAmounts :
               (pool_exists[m] /\ create_pool(u, m, n)) =>
                   ret' = "Panic" /\ UNCHANGED <<poolVars, balance>>

\* The product of two numbers below 10^6 as <<hi, lo>>, hi * 10^6 + lo.
WideProduct(a, b) ==
    LET a1 == a \div 1000
        a0 == a % 1000
        b1 == b \div 1000
        b0 == b % 1000
        low == (a1 * b0 + a0 * b1) * 1000 + a0 * b0
    IN <<a1 * b1 + low \div 1000000, low % 1000000>>

C30_Example ==
    /\ InitialReserve(1000000) = 500000
    /\ WideProduct(InitialReserve(1000000), InitialReserve(1000000)) = <<250000, 0>>

C30_CreatePool == [](C30_ResultRule /\ C30_Example) /\ [][C30_Step]_vars

\* A pool created with BigAmount exists and a later call was refused.
C30_Witness ==
    \E m \in AmmMarkets, u \in Users :
        /\ pool_exists[m]
        /\ pool_lp_supply[m] = BigAmount
        /\ pool_lp_tokens[m][u] = BigAmount
        /\ pool_k[m] = (BigAmount \div 2) * (BigAmount \div 2)
        /\ ret = "Panic"

\* C31: add_liquidity(amount) on a pool with LP supply S > 0 and reserves
\* (Y, N) mints floor(amount * S / (Y + N)) LP tokens to the provider (1:1 if
\* S = 0), fails if the minted amount or either side of the split is 0, raises
\* the two reserves by `amount` in total and pulls `amount` from the provider.
\* Example (in thousands of units): adding 500 to a fresh pool of 1,000 mints
\* 500 LP tokens and gives reserves 750 / 750; k of the example is
\* 750,000 * 750,000 = 562,500,000,000.
C31_Effect(u, m) ==
    LET S == pool_lp_supply[m]
        Y == pool_yes_reserve[m]
        N == pool_no_reserve[m]
        amount == balance[u] - balance'[u]
        minted == pool_lp_supply'[m] - S
        yes_added == pool_yes_reserve'[m] - Y
        no_added == pool_no_reserve'[m] - N
    IN
    /\ amount > 0
    /\ minted > 0
    /\ IF S = 0 THEN minted = amount ELSE IsFloorDiv(minted, amount * S, Y + N)
    /\ yes_added > 0
    /\ no_added > 0
    /\ yes_added + no_added = amount
    /\ pool_lp_tokens' = [pool_lp_tokens EXCEPT ![m][u] = @ + minted]
    /\ balance' = [balance EXCEPT ![u] = @ - amount, ![AmmContract] = @ + amount]
    /\ ret_val' = <<minted>>

C31_Step ==
    \A m \in AmmMarkets :
        (pool_exists[m] /\ pool_lp_supply'[m] > pool_lp_supply[m]) =>
            \E u \in Users : C31_Effect(u, m)

C31_ResultRule ==
    \A u \in Users, m \in AmmMarkets, a \in AmmAmounts :
        AddResult(u, m, a) = "Ok" =>
            /\ pool_exists[m]
            /\ a > 0
            /\ AddYes(m, a) > 0
            /\ a - AddYes(m, a) > 0
            /\ IF pool_lp_supply[m] = 0 THEN TRUE
               ELSE a * pool_lp_supply[m] >= pool_yes_reserve[m] + pool_no_reserve[m]

C31_Example ==
    /\ calculate_lp_tokens_to_mint(1000, 500 + 500, 500) = 500
    /\ 500 + yes_add_of(500, 500, 500 + 500) = 750
    /\ 500 + (500 - yes_add_of(500, 500, 500 + 500)) = 750
    /\ WideProduct(750000, 750000) = <<562500, 0>>

C31_AddLiquidity == [](C31_Example /\ C31_ResultRule) /\ [][C31_Step]_vars

\* Liquidity was added to a pool whose LP supply differs from its reserves:
\* the provider holds more LP tokens than they deposited.
C31_Witness ==
    \E m \in AmmMarkets, u \in Users :
        /\ ret = "Ok"
        /\ Len(ret_val) = 1
        /\ pool_lp_tokens[m][u] = ret_val[1]
        /\ ret_val[1] > InitialBalance - balance[u]
        /\ pool_lp_supply[m] > pool_lp_tokens[m][u]

\* C32: a successful add_liquidity leaves the marginal price unchanged: for
\* any pool reserves, get_odds of the pool returns the same pair immediately
\* before and immediately after the deposit.
C32_OddsPreserved ==
    [][\A m \in AmmMarkets :
          (pool_exists[m] /\ pool_lp_supply'[m] > pool_lp_supply[m]) =>
              get_odds(m)' = get_odds(m)]_vars

\* A deposit was accepted and the odds of the pool are no longer even although
\* nobody has traded.
C32_OddsMoved ==
    \E m \in AmmMarkets :
        /\ pool_exists[m]
        /\ \A u \in Users : \A o \in {0, 1} : user_shares[m][u][o] = 0
        /\ pool_lp_supply[m] > pool_yes_reserve[m] + pool_no_reserve[m] + 1
        /\ get_odds(m) # <<5000, 5000>>

\* C33: remove_liquidity(lp_tokens) succeeds only if lp_tokens > 0 and the
\* provider holds at least lp_tokens; it withdraws yes_amount =
\* floor(lp_tokens * Y / S) and no_amount = floor(lp_tokens * N / S), burns
\* lp_tokens from the provider and from the supply and pays yes_amount +
\* no_amount to the provider; it fails if either amount is 0 or either reserve
\* would reach 0, so the LP supply of a pool is never fully redeemed.
C33_Effect(u, m) ==
    LET S == pool_lp_supply[m]
        Y == pool_yes_reserve[m]
        N == pool_no_reserve[m]
        lp_tokens == S - pool_lp_supply'[m]
        yes_amount == Y - pool_yes_reserve'[m]
        no_amount == N - pool_no_reserve'[m]
    IN
    /\ lp_tokens > 0
    /\ pool_lp_tokens[m][u] >= lp_tokens
    /\ IsFloorDiv(yes_amount, lp_tokens * Y, S)
    /\ IsFloorDiv(no_amount, lp_tokens * N, S)
    /\ yes_amount > 0
    /\ no_amount > 0
    /\ pool_yes_reserve'[m] > 0
    /\ pool_no_reserve'[m] > 0
    /\ pool_lp_tokens' = [pool_lp_tokens EXCEPT ![m][u] = @ - lp_tokens]
    /\ balance' = [balance EXCEPT ![u] = @ + yes_amount + no_amount,
                                  ![AmmContract] = @ - (yes_amount + no_amount)]
    /\ ret_val' = <<yes_amount, no_amount>>

C33_Step ==
    \A m \in AmmMarkets :
        pool_lp_supply'[m] < pool_lp_supply[m] => \E u \in Users : C33_Effect(u, m)

C33_RejectRule ==
    \A u \in Users, m \in AmmMarkets, a \in AmmAmounts :
        (a = 0 \/ pool_lp_tokens[m][u] < a) => RemoveResult(u, m, a) # "Ok"

C33_NeverFullyRedeemed ==
    \A m \in AmmMarkets : pool_exists[m] => pool_lp_supply[m] > 0

C33_RemoveLiquidity ==
    [](C33_RejectRule /\ C33_NeverFullyRedeemed) /\ [][C33_Step]_vars

\* A provider has withdrawn part of their liquidity.
C33_Witness ==
    \E m \in AmmMarkets, u \in Users :
        /\ ret = "Ok"
        /\ Len(ret_val) = 2
        /\ ret_val[1] > 0
        /\ ret_val[2] > 0
        /\ pool_exists[m]
        /\ pool_lp_supply[m] > 0
        /\ pool_lp_supply[m] < BigAmount
        /\ pool_yes_reserve[m] > 0
        /\ pool_no_reserve[m] > 0

\* C34: the stored invariant k (get_pool_k) equals yes_reserve * no_reserve in
\* every reachable state of an existing pool: after create_pool, add_liquidity
\* and remove_liquidity, and also after every buy_shares and sell_shares.
C34_StoredKIsProduct ==
    \A m \in AmmMarkets :
        pool_exists[m] => pool_k[m] = pool_yes_reserve[m] * pool_no_reserve[m]

\* A trade has moved the reserves of a pool and the stored k is not their
\* product.
C34_StaleK ==
    \E m \in AmmMarkets :
        /\ pool_exists[m]
        /\ \E u \in Users, o \in {0, 1} : user_shares[m][u][o] > 0
        /\ pool_k[m] # pool_yes_reserve[m] * pool_no_reserve[m]

\* C35: the market's initialize takes effect at most once per instance: a
\* further initialize call cannot change the status, the pool totals, the
\* pending count, the deadlines or the creator of the market.
C35_InitializeOnce ==
    [][(init_calls >= 1 /\ init_calls' = init_calls + 1) =>
          UNCHANGED <<market_state, yes_pool, no_pool, pending_count,
                      closing_time, resolution_time, creator>>]_vars

\* The market was initialized a second time while a commitment was pending:
\* the commitment is still stored and the pending count is back to zero.
C35_Reinitialized ==
    /\ init_calls = 2
    /\ market_state = STATE_OPEN
    /\ \E u \in Users : commitments[u].has
    /\ pending_count = 0

\* C36: a UserPrediction whose winnings have been paid by claim_winnings is
\* never afterwards refunded by cancel_market, in any sequence of
\* resolve_market, claim_winnings, dispute_market and cancel_market: a
\* cancellation pays such a user nothing for that prediction.
C36_NoRefundAfterClaim ==
    [][(market_state # STATE_CANCELLED /\ market_state' = STATE_CANCELLED) =>
          \A u \in Users :
              (predictions[u].has /\ predictions[u].claimed) =>
                  balance'[u] - balance[u] =
                      IF commitments[u].has THEN commitments[u].amount ELSE 0]_vars

\* The market is cancelled, a user who was paid their winnings has no record
\* left, and holds more than their initial balance although no other user
\* ever put money into the pools.
C36_PaidAndRefunded ==
    \E u \in Users :
        /\ market_state = STATE_CANCELLED
        /\ init_calls = 1
        /\ payouts[u] = 1
        /\ ~predictions[u].has
        /\ ~commitments[u].has
        /\ balance[u] > InitialBalance
        /\ \A v \in Users \ {u} :
               balance[v] \in {InitialBalance, InitialBalance - DISPUTE_STAKE_AMOUNT}

\* C37: every stored UserPrediction created by reveal_prediction has outcome 0
\* or 1, and, for a market initialized once and before any cancellation,
\* yes_pool is the sum of the amounts of the stored predictions with outcome 1
\* and no_pool the sum of the amounts of those with outcome 0.
RECURSIVE C37_PoolOf(_, _)
C37_PoolOf(o, U) ==
    IF U = {} THEN 0
    ELSE LET u == CHOOSE x \in U : TRUE IN
         (IF predictions[u].has /\ predictions[u].outcome = o
          THEN predictions[u].amount ELSE 0) + C37_PoolOf(o, U \ {u})

C37_PoolsMatchPredictions ==
    /\ \A u \in Users : predictions[u].has => predictions[u].outcome \in {0, 1}
    /\ (init_calls = 1 /\ ~was_cancelled) =>
           /\ yes_pool = C37_PoolOf(1, Users)
           /\ no_pool = C37_PoolOf(0, Users)

\* A revealed prediction is stored with an outcome that is neither 0 nor 1 and
\* its amount is counted in no_pool.
C37_ThirdOutcome ==
    \E u \in Users :
        /\ init_calls = 1
        /\ ~was_cancelled
        /\ predictions[u].has
        /\ predictions[u].outcome = 2
        /\ no_pool >= predictions[u].amount
        /\ predictions[u].amount > 0

\* C38: no user ever holds a live Commitment and a UserPrediction at the same
\* time (commit_prediction is rejected for a user who has already revealed),
\* so every live Commitment in an OPEN market can still be revealed before
\* closing_time with the committed market id, outcome, amount and salt.
C38_CommitmentOrPrediction ==
    \A u \in Users :
        /\ ~(commitments[u].has /\ predictions[u].has)
        /\ (commitments[u].has /\ market_state = STATE_OPEN /\ now < closing_time) =>
               RevealResult(u, commitments[u].commit_hash[1], commitments[u].commit_hash[2],
                            commitments[u].amount, commitments[u].commit_hash[3]) = "Ok"

\* An open market before its closing time holds a commitment of a user who has
\* already revealed: the money is in escrow and the matching reveal is
\* rejected as a duplicate.
C38_StuckCommitment ==
    \E u \in Users :
        /\ init_calls = 1
        /\ market_state = STATE_OPEN
        /\ now < closing_time
        /\ commitments[u].has
        /\ predictions[u].has
        /\ balance[MarketContract] >= commitments[u].amount + predictions[u].amount
        /\ RevealResult(u, commitments[u].commit_hash[1], commitments[u].commit_hash[2],
                        commitments[u].amount, commitments[u].commit_hash[3])
               = "DuplicateReveal"

\* C39: for a market that is initialized once and resolved through
\* resolve_market, the sum of all net payouts made by claim_winnings never
\* exceeds winner_shares + loser_shares, which equals yes_pool + no_pool.
C39_PayoutsWithinPools ==
    init_calls = 1 =>
        IF winner_shares = NONE THEN paid_total = 0
        ELSE /\ winner_shares + loser_shares = yes_pool + no_pool
             /\ paid_total <= winner_shares + loser_shares

\* Both users have claimed their winnings from a resolved market and the
\* payouts add up to more than one stake.
C39_Witness ==
    /\ init_calls = 1
    /\ market_state = STATE_RESOLVED
    /\ \A u \in Users : payouts[u] = 1 /\ predictions[u].claimed
    /\ paid_total > AmountUnit
    /\ paid_total <= yes_pool + no_pool

\* C40: AMM solvency: the contract's balance on the token ledger is at least
\* the sum over all pools of yes_reserve + no_reserve, after any sequence of
\* create_pool, buy_shares, sell_shares, add_liquidity and remove_liquidity,
\* so a remove_liquidity or sell_shares call that passes its validation never
\* fails for lack of funds.
RECURSIVE C40_Reserves(_)
C40_Reserves(M) ==
    IF M = {} THEN 0
    ELSE LET m == CHOOSE x \in M : TRUE IN
         pool_yes_reserve[m] + pool_no_reserve[m] + C40_Reserves(M \ {m})

C40_Solvent ==
    /\ balance[AmmContract] >= C40_Reserves(AmmMarkets)
    /\ amm_initialized =>
           /\ \A u \in Users, m \in AmmMarkets, a \in AmmAmounts :
                  RemoveChecks(u, m, a) = "Ok" => RemoveResult(u, m, a) = "Ok"
           /\ \A u \in Users, m \in AmmMarkets, o \in {0, 1}, a \in AmmAmounts,
                    mo \in MinOuts :
                  (SellChecks(u, m, o, a, mo) = "Ok" /\ SellReservesPositive(m, o, a))
                      => SellResult(u, m, o, a, mo) = "Ok"

\* After several pool operations a user holds shares they can sell and LP
\* tokens they can redeem, and the contract holds more than one pool's
\* reserves.
C40_Witness ==
    /\ amm_ops >= 3
    /\ \A m \in AmmMarkets : pool_exists[m]
    /\ \E u \in Users, m \in AmmMarkets, o \in {0, 1}, a \in AmmAmounts :
           /\ user_shares[m][u][o] > 0
           /\ SellResult(u, m, o, a, 0) = "Ok"
           /\ \E l \in AmmAmounts : RemoveResult(u, m, l) = "Ok"
           /\ balance[AmmContract] > pool_yes_reserve[m] + pool_no_reserve[m]

\* C2: for every pool, a successful buy_shares or sell_shares never lowers
\* the product yes_reserve * no_reserve.
PoolProduct(m) == pool_yes_reserve[m] * pool_no_reserve[m]

IsTrade(m) ==
    /\ ret' = "Ok"
    /\ \E u \in Users, o \in {0, 1}, a \in AmmAmounts, mn \in MinOuts :
           buy_shares(u, m, o, a, mn) \/ sell_shares(u, m, o, a, mn)

C2_ProductStep ==
    \A m \in AmmMarkets :
        (pool_yes_reserve'[m] * pool_no_reserve'[m] < PoolProduct(m)) => ~IsTrade(m)

C2_KNonDecreasing == [][C2_ProductStep]_vars

\* Trades have moved the product above the k stored by the last liquidity
\* operation, and a trader holds shares of the pool.
C2_Witness ==
    \E m \in AmmMarkets, u \in Users :
        /\ pool_exists[m]
        /\ PoolProduct(m) > pool_k[m]
        /\ user_shares[m][u][0] + user_shares[m][u][1] > 0

\* C3: for every pool the LP token supply equals the sum of all holders'
\* LP balances.
RECURSIVE SumLp(_, _)
SumLp(m, S) ==
    IF S = {} THEN 0
    ELSE LET u == CHOOSE x \in S : TRUE
         IN pool_lp_tokens[m][u] + SumLp(m, S \ {u})

C3_LpSupplyIsSum ==
    \A m \in AmmMarkets : pool_lp_supply[m] = SumLp(m, Users)

\* A pool with two holders of LP tokens.
C3_Witness ==
    \E m \in AmmMarkets :
        /\ pool_exists[m]
        /\ \A u \in Users : pool_lp_tokens[m][u] > 0

\* C5: a step that moves the market to RESOLVED is taken only while
\* check_consensus reports consensus for that market, and the winning_outcome
\* it stores is the outcome check_consensus reports.
C5_ResolveStep ==
    (market_state' = STATE_RESOLVED /\ market_state # STATE_RESOLVED) =>
        /\ market_id \in OracleMarkets
        /\ check_consensus(market_id)[1]
        /\ winning_outcome' = check_consensus(market_id)[2]

C5_ResolveFollowsConsensus == [][C5_ResolveStep]_vars

\* C6: with yes and no the numbers of votes stored for a market and T the
\* stored threshold, check_consensus is (TRUE, 1) exactly when yes >= T and
\* yes > no, (TRUE, 0) exactly when no >= T and no > yes, and (FALSE, 0)
\* otherwise.
YesVotes(m) == Cardinality({o \in Oracles : vote[m][o] = 1})
NoVotes(m) == Cardinality({o \in Oracles : vote[m][o] = 0})

C6_ConsensusRule ==
    \A m \in OracleMarkets :
        LET yes == YesVotes(m)
            no == NoVotes(m)
            T == Or0(required_consensus)
            r == check_consensus(m)
        IN /\ (r = <<TRUE, 1>>) <=> (yes >= T /\ yes > no)
           /\ (r = <<TRUE, 0>>) <=> (no >= T /\ no > yes)
           /\ ~(yes >= T /\ yes > no) /\ ~(no >= T /\ no > yes) => r = <<FALSE, 0>>

\* Both outcomes have reached a positive threshold with equal counts.
C6_Witness ==
    \E m \in OracleMarkets :
        /\ Or0(required_consensus) >= 1
        /\ YesVotes(m) >= Or0(required_consensus)
        /\ YesVotes(m) = NoVotes(m)
        /\ check_consensus(m) = <<FALSE, 0>>

\* C8: once a pool exists both of its reserves are strictly positive.
C8_ReservesPositive ==
    \A m \in AmmMarkets :
        pool_exists[m] => pool_yes_reserve[m] > 0 /\ pool_no_reserve[m] > 0

\* C9: get_odds returns two values whose sum is 10000 in every state.
C9_OddsSum ==
    \A m \in AmmMarkets : get_odds(m)[1] + get_odds(m)[2] = 10000

\* A pool whose truncated odds do not add up without the adjustment.
C9_Witness ==
    \E m \in AmmMarkets :
        /\ pool_exists[m]
        /\ pool_yes_reserve[m] > 0 /\ pool_no_reserve[m] > 0
        /\ (pool_no_reserve[m] * 10000) % (pool_yes_reserve[m] + pool_no_reserve[m]) # 0

\* C10: once resolve_market has succeeded, no later resolve_market call succeeds.
C10_ResolveOnce ==
    [][winning_outcome # NONE => ~(resolve_market /\ ResolveResult = "Ok")]_vars

====
